---- MODULE Spec2Model ----
(***************************************************************************)
(* Keithley 2450 "trigger listener + I-V sweep" application.               *)
(*                                                                         *)
(* Model of the session arbitration between TriggerReceiveGUI (listener)   *)
(* and IntegratedIVSweepApp (sweep side) hosted by ReceiveAndIVApp, of the *)
(* wait-for-trigger worker thread, of the sweep worker thread and of the   *)
(* Tk event loop that runs every UI callback.                              *)
(*                                                                         *)
(* Threads: the Tk main thread (variable ui), the wait workers (waits) and *)
(* the sweep workers (sweeps).  A UI callback runs to completion before    *)
(* the next one is dispatched; worker threads interleave with it, so the   *)
(* callbacks that read thread state (is_alive, join) are split at those    *)
(* reads.  Message boxes are treated as notifications that return at once. *)
(***************************************************************************)
EXTENDS Integers, Sequences, FiniteSets, TLC

(* ------------------------------ bounds --------------------------------- *)
\* VISA sessions opened in a run of the program (open_resource calls that
\* succeed); session numbers are never reused.
MaxHandles == 2
\* wait-for-trigger worker threads started in a run of the program.
MaxWaits == 2
\* sweep worker threads started in a run of the program.
MaxSweeps == 2
\* largest "Total runs" value entered.
MaxRuns == 1
\* callbacks pending in the Tk queue when a worker thread posts another.
MaxQueue == 2
\* lines the instrument sends in one call of _read_until_marker.
MaxStream == 3
\* characters of one line.
MaxLineLen == 2
\* runs and segments per run of the sweep followed on its own.
SweepRuns == 2
SweepSegs == 2
\* runs, and points per run, of the sweep whose records are followed.
DataRuns == 2
DataPoints == 2
\* start, stop and step handed to _build_segments lie in -PlanRange..PlanRange
\* grid units.
PlanRange == 3
\* longest commanded or measured sequence handed to _match_voltage_sequence.
MatchLen == 3
\* runs of the sweep whose adjusted flags are followed, and points streamed
\* in one segment.
FlagRuns == 2
FlagPoints == 3
\* lines read in one drain of _read_response_lines / _query_lines after the
\* first line, and calls of the helper that are followed.
MaxDrainLines == 2
DrainCalls == 2
\* lines printed before the marker of the segment whose readback is
\* followed, value of defbuffer1.n, and tokens of one printbuffer response.
FetchLines == 2
FetchCount == 2
FetchTokens == 3
\* sweeps started on one session, runs per sweep, segments per run and
\* measurement lines per segment of the sweeps whose output lines are followed.
AttrSweeps == 2
AttrRuns == 2
AttrSegs == 1
AttrPoints == 1
\* runs of the sweep whose run lists are followed, and points streamed in
\* one of its segments.
ShapeRuns == 2
ShapePoints == 2
\* 2602B sweep: most points of one run, most runs, most I/O faults, and the
\* most readings the buffer is let to hold
BookPoints == 3
BookRuns == 2
MaxFaults == 2
BufferCap == 8
\* largest number of segments per run that _build_segments returns for the
\* entered range.
NumSegs == 1

(* ----------------------------- constants ------------------------------- *)
None == 0
NoStatus == "None"
BusyStatus == "Instrument busy running I-V sweep."
UnlockedStatus == "Trigger operations unlocked."

\* responses of print(receive_trigger_wait(...)), plus a VisaIOError
WaitResults == {"TRIGGER", "CANCEL", "TIMEOUT", "ERROR"}
\* what the entry fields hold when start_sweep reads them
ParamKinds == {"ok", "invalid", "tiny_step"}

VARIABLES
    chOpen,     \* chOpen[h]: session h is open and the instrument reachable
    tg,         \* TriggerReceiveGUI object (ReceiveAndIVApp.trigger_gui)
    iv,         \* IntegratedIVSweepApp object (ReceiveAndIVApp.iv_app)
    waits,      \* live wait-for-trigger worker threads
    sweeps,     \* sweep worker threads, by thread id
    uiq,        \* callbacks posted with root.after(0, ...), in order
    ui,         \* position of the Tk main thread
    started,    \* sessions opened and threads started so far
    fx          \* one call of a worker function followed step by step

vars == <<chOpen, tg, iv, waits, sweeps, uiq, ui, started, fx>>

Handles == 1..MaxHandles

(* ------------------------- channel (pyvisa) ---------------------------- *)
\* inst.write / inst.query / inst.read on session h succeeds
Usable(h) == h # None /\ chOpen[h]

\* rm.open_resource(address): the session it returns
NewHandle == started.handles + 1

(* ----------------------- sweep thread predicates ----------------------- *)
\* sweeps[Current] is the thread self.sweep_thread names; sweeps[Orphan] is
\* an earlier thread that outlived the join of start_sweep
Current == 1
Orphan == 2
ThreadAlive(id) == id # None /\ sweeps[id].pc # "dead"
\* IntegratedIVSweepApp.is_sweep_running
is_sweep_running == ThreadAlive(iv.sweep_thread)
AliveSweeps == {id \in DOMAIN sweeps : sweeps[id].pc # "dead"}

(* ------------------- TriggerReceiveGUI / ReceiveTriggerGUI ------------- *)
\* truth value of a Python str | None
Truthy(s) == s # NoStatus /\ s # ""

\* ReceiveTriggerGUI._set_buttons(connected, waiting)
set_buttons(t, connected, waiting) ==
    [t EXCEPT !.btn_connected = connected, !.btn_waiting = waiting]

\* state of the buttons as _set_buttons leaves them
BtnSetup(t) == t.btn_connected /\ ~t.btn_waiting
BtnWait(t) == t.btn_connected /\ ~t.btn_waiting
BtnCancel(t) == t.btn_connected /\ t.btn_waiting
BtnDisplay(t) == t.btn_connected

\* a guard that lets every action through
guard_never_locked(t) == TRUE
\* TriggerReceiveGUI._guard_if_locked: TRUE lets the action through
guard_if_locked(t) == ~t.instrument_locked

\* a lock setter without the early return for an unchanged lock
set_lock_unconditionally(t, locked) ==
    IF locked
    THEN [t EXCEPT !.instrument_locked = TRUE,
                   !.status_before_lock = t.status,
                   !.status = BusyStatus]
    ELSE [t EXCEPT !.instrument_locked = FALSE,
                   !.status = IF Truthy(t.status_before_lock)
                              THEN t.status_before_lock
                              ELSE UnlockedStatus,
                   !.status_before_lock = NoStatus]
\* TriggerReceiveGUI.set_instrument_lock(locked)
set_instrument_lock(t, locked) ==
    IF locked = t.instrument_locked THEN t
    ELSE IF locked
         THEN [t EXCEPT !.instrument_locked = TRUE,
                        !.status_before_lock = t.status,
                        !.status = BusyStatus]
         ELSE [t EXCEPT !.instrument_locked = FALSE,
                        !.status = IF Truthy(t.status_before_lock)
                                   THEN t.status_before_lock
                                   ELSE UnlockedStatus,
                        !.status_before_lock = NoStatus]

\* ReceiveTriggerGUI._load_script on the sessions ch: the writes succeed on
\* a usable session
load_script(t, ch) ==
    IF t.inst = None THEN t
    ELSE [t EXCEPT !.script_loaded = ch[t.inst]]

\* ReceiveTriggerGUI._check_ready: the object after the call; ready iff
\* inst is set and script_loaded holds afterwards
check_ready(t) ==
    IF t.inst = None THEN t
    ELSE IF ~t.script_loaded THEN load_script(t, chOpen) ELSE t
IsReady(t) == t.inst # None /\ check_ready(t).script_loaded

\* ReceiveTriggerGUI._async_complete_wait.finish
finish(t, res) ==
    LET t1 == set_buttons([t EXCEPT !.waiting = FALSE], TRUE, FALSE)
        st == CASE res = "CANCEL" -> "Wait cancelled."
                [] res = "TRIGGER" -> "Trigger received."
                [] res = "TIMEOUT" -> "Timeout (no trigger detected)."
                [] res = "INVALID_MODE" -> "Line mode incompatible with trigger wait."
                [] res = "ERROR" /\ t.cancel_requested -> "Wait cancelled."
                [] OTHER -> t.status
    IN [t1 EXCEPT !.status = st, !.cancel_requested = FALSE]

(* ------------------------------ Tk main loop --------------------------- *)
\* the main loop is between callbacks: a button press or a posted callback
\* can be dispatched
UIIdle == ui.pc = "idle"
RootAlive == ui.pc # "closed"

\* root.after(0, callback) from a worker thread; after root.destroy() the
\* call raises and nothing is queued
Post(q, ev) == IF RootAlive THEN Append(q, ev) ELSE q
\* the Tk queue takes another callback
QueueRoom == Len(uiq) < MaxQueue

(* --------------------------- listener controls ------------------------- *)
\* ReceiveTriggerGUI.connect (Connect button, always enabled)
TG_connect ==
    /\ UIIdle
    /\ \E ok \in BOOLEAN :
         IF ok
         THEN /\ started.handles < MaxHandles
              /\ started' = [started EXCEPT !.handles = @ + 1]
              /\ chOpen' = [chOpen EXCEPT ![NewHandle] = TRUE]
              /\ tg' = set_buttons(
                          load_script([tg EXCEPT !.rm = TRUE,
                                                 !.inst = NewHandle,
                                                 !.status = "Connected"],
                                      chOpen'),
                          TRUE, FALSE)
         ELSE /\ tg' = set_buttons([tg EXCEPT !.rm = TRUE, !.inst = None],
                                   FALSE, FALSE)
              /\ UNCHANGED <<chOpen, started>>
    /\ UNCHANGED <<iv, waits, sweeps, uiq, ui, fx>>

\* ReceiveTriggerGUI.disconnect, the body behind the lock guard
base_disconnect(t) ==
    set_buttons([t EXCEPT !.waiting = FALSE, !.rm = FALSE, !.inst = None,
                          !.script_loaded = FALSE, !.status = "Disconnected"],
                FALSE, FALSE)

\* inst.close() on the session of object o
CloseOf(o, ch) == IF o.inst = None THEN ch ELSE [ch EXCEPT ![o.inst] = FALSE]

\* TriggerReceiveGUI.disconnect (Disconnect button, always enabled)
TG_disconnect ==
    /\ UIIdle
    /\ IF ~guard_if_locked(tg)
       THEN UNCHANGED <<tg, chOpen>>
       ELSE /\ chOpen' = CloseOf(tg, chOpen)
            /\ tg' = base_disconnect(tg)
    /\ UNCHANGED <<iv, waits, sweeps, uiq, ui, started, fx>>

\* TriggerReceiveGUI.start_wait ("Wait for Trigger" button): the guard, then
\* ReceiveTriggerGUI.start_wait, whose thread sends the query on tg.inst
TG_start_wait ==
    /\ UIIdle
    /\ BtnWait(tg)
    /\ IF ~guard_if_locked(tg)
       THEN UNCHANGED <<tg, waits, started>>
       ELSE IF ~IsReady(tg) \/ tg.waiting
       THEN /\ tg' = check_ready(tg)
            /\ UNCHANGED <<waits, started>>
       ELSE /\ started.waits < MaxWaits
            /\ started' = [started EXCEPT !.waits = @ + 1]
            /\ tg' = set_buttons([check_ready(tg) EXCEPT !.waiting = TRUE,
                                                         !.cancel_requested = FALSE],
                                 TRUE, TRUE)
            /\ waits' = Append(waits, [pc |-> "blocked", h |-> tg.inst, res |-> "none"])
    /\ UNCHANGED <<chOpen, iv, sweeps, uiq, ui, fx>>

\* TriggerReceiveGUI.setup_trigger ("Setup" button): the guard, _check_ready,
\* then one write
TG_setup_trigger ==
    /\ UIIdle
    /\ BtnSetup(tg)
    /\ tg' = IF ~guard_if_locked(tg) THEN tg ELSE check_ready(tg)
    /\ UNCHANGED <<chOpen, iv, waits, sweeps, uiq, ui, started, fx>>

\* ReceiveTriggerGUI.cancel_wait ("Cancel Wait" button): no lock guard; the
\* flag stays set when the write went through
TG_cancel_wait ==
    /\ UIIdle
    /\ BtnCancel(tg)
    /\ tg' = IF ~tg.waiting \/ tg.inst = None THEN tg
             ELSE [tg EXCEPT !.cancel_requested = Usable(tg.inst)]
    /\ UNCHANGED <<chOpen, iv, waits, sweeps, uiq, ui, started, fx>>

\* ReceiveTriggerGUI.display_hello / display_hey / clear_display: no lock
\* guard; _check_ready, then one write
TG_display ==
    /\ UIIdle
    /\ BtnDisplay(tg)
    /\ tg' = check_ready(tg)
    /\ UNCHANGED <<chOpen, iv, waits, sweeps, uiq, ui, started, fx>>

\* ReceiveTriggerGUI.refresh_errors (the error window): SYST:ERR? queries, no
\* lock guard; nothing of the object changes
TG_refresh_errors ==
    /\ UIIdle
    /\ UNCHANGED vars

\* the sessions a listener control writes to or reads from on the Tk thread
\* (or, for start_wait, in the thread it starts) when it is pressed now
IOof(op, t) ==
    CASE op = "start_wait" ->
           IF guard_if_locked(t) /\ BtnWait(t) /\ t.inst # None
              /\ (~t.script_loaded \/ ~t.waiting) THEN {t.inst} ELSE {}
      [] op = "setup_trigger" ->
           IF guard_if_locked(t) /\ BtnSetup(t) /\ t.inst # None
           THEN {t.inst} ELSE {}
      [] op = "disconnect" ->
           IF guard_if_locked(t) /\ t.inst # None THEN {t.inst} ELSE {}
      [] op = "cancel_wait" ->
           IF BtnCancel(t) /\ t.waiting /\ t.inst # None THEN {t.inst} ELSE {}
      [] op = "display" ->
           IF BtnDisplay(t) /\ t.inst # None THEN {t.inst} ELSE {}
      [] op = "refresh_errors" ->
           IF t.inst # None THEN {t.inst} ELSE {}
ListenerOps == {"start_wait", "setup_trigger", "disconnect", "cancel_wait",
                "display", "refresh_errors"}

(* ---------------------- wait-for-trigger worker ------------------------ *)
\* a test that takes every response for a trigger
triggered_always(res) == TRUE
\* TriggerReceiveGUI._async_complete_wait: the test that decides whether
\* the trigger callback is posted
triggered(res) == res = "TRIGGER"

Ev(kind, res) == [kind |-> kind, res |-> res]
Remove(q, k) == [j \in 1..(Len(q) - 1) |-> IF j < k THEN q[j] ELSE q[j + 1]]

\* ReceiveTriggerGUI._wait_worker: inst.query returns or raises, then
\* _async_complete_wait posts finish
W_return(k) ==
    /\ RootAlive
    /\ waits[k].pc = "blocked"
    /\ QueueRoom
    /\ \E res \in WaitResults :
         /\ chOpen[waits[k].h] \/ res = "ERROR"
         /\ uiq' = Post(uiq, Ev("finish", res))
         /\ waits' = IF triggered(res)
                     THEN [waits EXCEPT ![k] = [@ EXCEPT !.pc = "post_trigger",
                                                         !.res = res]]
                     ELSE Remove(waits, k)
    /\ UNCHANGED <<chOpen, tg, iv, sweeps, ui, started, fx>>

\* TriggerReceiveGUI._async_complete_wait, line 88: the trigger callback is
\* posted after finish, by a second root.after call of the worker thread
W_post_trigger(k) ==
    /\ RootAlive
    /\ waits[k].pc = "post_trigger"
    /\ QueueRoom
    /\ uiq' = Post(uiq, Ev("trigger", waits[k].res))
    /\ waits' = Remove(waits, k)
    /\ UNCHANGED <<chOpen, tg, iv, sweeps, ui, started, fx>>

(* ------------------------ IntegratedIVSweepApp ------------------------- *)
\* IntegratedIVSweepApp.attach_shared_instrument (called with no sweep running)
attach_shared_instrument(i, instrument, resource_manager) ==
    [i EXCEPT !.inst = instrument, !.rm = resource_manager,
              !.script_loaded = FALSE, !.using_shared_session = TRUE,
              !.connect_button = FALSE, !.disconnect_button = FALSE,
              !.run_button = TRUE]

\* IntegratedIVSweepApp.release_shared_instrument
release_shared_instrument(i) ==
    IF ~i.using_shared_session THEN i
    ELSE [i EXCEPT !.inst = None, !.rm = FALSE, !.script_loaded = FALSE,
                   !.using_shared_session = FALSE, !.run_button = FALSE,
                   !.connect_button = TRUE, !.disconnect_button = FALSE]

\* IVSweepApp.disconnect_instrument: the object afterwards
disconnect_instrument(i) ==
    [i EXCEPT !.inst = None, !.rm = FALSE, !.script_loaded = FALSE,
              !.run_button = FALSE, !.connect_button = TRUE,
              !.disconnect_button = FALSE]

\* a sweep side that closes the session it was lent
cleanup_closes_shared(i, ch) == CloseOf(i, ch)
\* what the sweep side does to the sessions when it lets go of its own:
\* IntegratedIVSweepApp.disconnect_instrument lines 130-134 and
\* _stop_and_cleanup lines 176-179 close it only when it is not shared
cleanup_channel(i, ch) == IF i.using_shared_session THEN ch ELSE CloseOf(i, ch)

\* ReceiveAndIVApp._on_iv_run_state_changed, reached through _notify_run_state
on_iv_run_state_changed(t, running) == set_instrument_lock(t, running)

\* IVSweepApp.connect_instrument (Connect button of the sweep tab)
IV_connect ==
    /\ UIIdle
    /\ iv.connect_button
    /\ \E ok \in BOOLEAN :
         IF ok
         THEN /\ started.handles < MaxHandles
              /\ started' = [started EXCEPT !.handles = @ + 1]
              /\ chOpen' = [chOpen EXCEPT ![NewHandle] = TRUE]
              /\ iv' = [iv EXCEPT !.rm = TRUE, !.inst = NewHandle,
                                  !.script_loaded = FALSE, !.run_button = TRUE,
                                  !.connect_button = FALSE,
                                  !.disconnect_button = TRUE]
         ELSE /\ iv' = [iv EXCEPT !.rm = TRUE, !.inst = None]
              /\ UNCHANGED <<chOpen, started>>
    /\ UNCHANGED <<tg, waits, sweeps, uiq, ui, fx>>

\* IntegratedIVSweepApp.disconnect_instrument (Disconnect button of the sweep
\* tab; start_sweep leaves the button enabled)
IV_disconnect ==
    /\ UIIdle
    /\ iv.disconnect_button
    /\ chOpen' = cleanup_channel(iv, chOpen)
    /\ iv' = IF iv.using_shared_session THEN iv ELSE disconnect_instrument(iv)
    /\ UNCHANGED <<tg, waits, sweeps, uiq, ui, started, fx>>

(* --------------------------- sweep worker ------------------------------ *)
\* a thread object that is not running (never started, or ended)
DeadWorker ==
    [pc |-> "dead", run |-> 0, seg |-> 0, h |-> None, nruns |-> 0,
     nsegs |-> 0, pk |-> "none"]
\* threading.Thread(target=self._sweep_worker, args=(sweep_params, total_runs))
NewWorker(pk, nruns) ==
    [pc |-> "build", run |-> 0, seg |-> 0, h |-> None, nruns |-> nruns,
     nsegs |-> 0, pk |-> pk]

\* an except clause inside the segment loop: the failure callback is posted
\* and the worker goes on with the next segment
SW_fail_goes_on(id, why) ==
    /\ QueueRoom
    /\ sweeps' = [sweeps EXCEPT ![id].pc = "segment", ![id].h = None]
    /\ uiq' = Post(uiq, Ev("failed", why))
    /\ UNCHANGED iv

\* IVSweepApp._sweep_worker, except clause: the failure callback is posted
\* and the thread ends.  The message of the exception is "Sweep cancelled."
\* (why = "cancelled") or names a failure (why = "error")
SW_fail(id, why) ==
    /\ QueueRoom
    /\ sweeps' = [sweeps EXCEPT ![id] = DeadWorker]
    /\ uiq' = Post(uiq, Ev("failed", why))
    /\ UNCHANGED iv

\* return inside the try block, or an exception outside it: the thread ends
\* and nothing is posted
SW_silent(id) ==
    /\ sweeps' = [sweeps EXCEPT ![id] = DeadWorker]
    /\ UNCHANGED <<uiq, iv, started, fx>>

\* IVSweepApp._sweep_worker line 292: _build_segments raises ValueError for a
\* step below 1e-15, outside the try block
SW_build(id) ==
    /\ RootAlive
    /\ sweeps[id].pc = "build"
    /\ IF sweeps[id].pk = "tiny_step"
       THEN SW_silent(id)
       ELSE /\ \E n \in 1..NumSegs :
                 sweeps' = [sweeps EXCEPT ![id].pc = "load",
                                          ![id].pk = "none", ![id].nsegs = n]
            /\ UNCHANGED <<uiq, iv>>
    /\ UNCHANGED <<chOpen, tg, waits, ui, started, fx>>

\* lines 296-298: ensure_script_loaded, then the first stop_event test
SW_load(id) ==
    /\ RootAlive
    /\ sweeps[id].pc = "load"
    /\ IF iv.inst = None \/ (~iv.script_loaded /\ ~Usable(iv.inst))
       THEN SW_fail(id, "error")
       ELSE /\ sweeps' = [sweeps EXCEPT ![id] =
                             IF iv.stop_event THEN DeadWorker
                             ELSE [@ EXCEPT !.pc = "wiring"]]
            /\ iv' = [iv EXCEPT !.script_loaded = TRUE]
            /\ UNCHANGED uiq
    /\ UNCHANGED <<chOpen, tg, waits, ui, started, fx>>

\* lines 299-301: _apply_wiring_mode, then the second stop_event test
SW_wiring(id) ==
    /\ RootAlive
    /\ sweeps[id].pc = "wiring"
    /\ IF iv.inst # None /\ ~Usable(iv.inst)
       THEN SW_fail(id, "error")
       ELSE IF iv.stop_event
       THEN SW_silent(id)
       ELSE /\ sweeps' = [sweeps EXCEPT ![id].pc = "segment", ![id].run = 1,
                                        ![id].seg = 1]
            /\ UNCHANGED <<uiq, iv>>
    /\ UNCHANGED <<chOpen, tg, waits, ui, started, fx>>

\* lines 303/323 and _perform_sweep lines 405-411: the stop_event test before
\* a segment, then the segment command and its marker print are written
SW_segment(id) ==
    /\ RootAlive
    /\ sweeps[id].pc = "segment"
    /\ IF iv.stop_event
       THEN SW_fail(id, "cancelled")
       ELSE IF ~Usable(iv.inst)
       THEN SW_fail(id, "error")
       ELSE /\ sweeps' = [sweeps EXCEPT ![id].pc = "entry"]
            /\ UNCHANGED <<uiq, iv>>
    /\ UNCHANGED <<chOpen, tg, waits, ui, started, fx>>

\* an entry that returns the empty list whatever self.inst is
SW_entry_skips_loop(id) ==
    /\ RootAlive
    /\ sweeps[id].pc = "entry"
    /\ sweeps' = [sweeps EXCEPT ![id].pc = "readback"]
    /\ UNCHANGED <<chOpen, tg, iv, waits, uiq, ui, started, fx>>

\* _read_until_marker lines 445-446: with self.inst None on entry the loop
\* is skipped and the empty list returned
SW_entry(id) ==
    /\ RootAlive
    /\ sweeps[id].pc = "entry"
    /\ sweeps' = [sweeps EXCEPT ![id].pc =
                     IF iv.inst = None THEN "readback" ELSE "read"]
    /\ UNCHANGED <<chOpen, tg, iv, waits, uiq, ui, started, fx>>

\* a loop iteration that reads without looking at stop_event
SW_read_unchecked(id) ==
    /\ RootAlive
    /\ sweeps[id].pc = "read"
    /\ iv.inst # None
    /\ sweeps' = [sweeps EXCEPT ![id].pc = "reading", ![id].h = iv.inst]
    /\ UNCHANGED <<uiq, iv, chOpen, tg, waits, ui, started, fx>>

\* _read_until_marker lines 448-452: top of a loop iteration; the thread
\* then blocks in inst.read() on the session it found in self.inst.  With
\* self.inst None, inst.read() raises AttributeError, which the except
\* clause of _sweep_worker catches
SW_read(id) ==
    /\ RootAlive
    /\ sweeps[id].pc = "read"
    /\ IF iv.stop_event
       THEN SW_fail(id, "cancelled")
       ELSE IF iv.inst = None
       THEN SW_fail(id, "error")
       ELSE /\ sweeps' = [sweeps EXCEPT ![id].pc = "reading", ![id].h = iv.inst]
            /\ UNCHANGED <<uiq, iv>>
    /\ UNCHANGED <<chOpen, tg, waits, ui, started, fx>>

\* what a pending inst.read() delivers: a measurement line, the marker
\* line, a VISA timeout, or the loss of the connection
ReadResults == {"data", "marker", "timeout", "lost"}

\* _read_until_marker lines 452-463: inst.read() returns a line or raises.
\* A measurement line goes to handle_point, whose posted _update_live_plot
\* only redraws the plot: it touches none of the variables and is left out
\* of uiq
SW_reading(id) ==
    /\ RootAlive
    /\ sweeps[id].pc = "reading"
    /\ IF ~chOpen[sweeps[id].h]
       THEN SW_fail(id, "error") /\ UNCHANGED chOpen
       ELSE \E r \in ReadResults :
              CASE r = "timeout" -> SW_fail(id, "error") /\ UNCHANGED chOpen
                [] r = "lost" ->
                     /\ SW_fail(id, "error")
                     /\ chOpen' = [chOpen EXCEPT ![sweeps[id].h] = FALSE]
                [] r = "marker" ->
                     /\ sweeps' = [sweeps EXCEPT ![id].pc = "readback",
                                                 ![id].h = None]
                     /\ UNCHANGED <<uiq, iv, chOpen>>
                [] r = "data" ->
                     /\ sweeps' = [sweeps EXCEPT ![id].pc = "read",
                                                 ![id].h = None]
                     /\ UNCHANGED <<uiq, iv, chOpen>>
    /\ UNCHANGED <<tg, waits, ui, started, fx>>

\* a readback that moves on to the next run while segments remain
SW_readback_skips_segments(id) ==
    /\ RootAlive
    /\ sweeps[id].pc = "readback"
    /\ IF ~Usable(iv.inst)
       THEN SW_fail(id, "error")
       ELSE /\ UNCHANGED <<uiq, iv>>
            /\ sweeps' = [sweeps EXCEPT ![id] =
                 IF @.run < @.nruns
                 THEN [@ EXCEPT !.pc = "segment", !.seg = 1, !.run = @ + 1]
                 ELSE IF @.seg < @.nsegs
                 THEN [@ EXCEPT !.pc = "segment", !.seg = @ + 1]
                 ELSE [@ EXCEPT !.pc = "complete"]]
    /\ UNCHANGED <<chOpen, tg, waits, ui, started, fx>>

\* _perform_sweep lines 426-442 and _sweep_worker lines 357-388: buffer
\* readback, the segment snapshot, then the next segment or the next run
SW_readback(id) ==
    /\ RootAlive
    /\ sweeps[id].pc = "readback"
    /\ IF ~Usable(iv.inst)
       THEN SW_fail(id, "error")
       ELSE /\ UNCHANGED <<uiq, iv>>
            /\ sweeps' = [sweeps EXCEPT ![id] =
                 IF @.seg < @.nsegs
                 THEN [@ EXCEPT !.pc = "segment", !.seg = @ + 1]
                 ELSE IF @.run < @.nruns
                 THEN [@ EXCEPT !.pc = "segment", !.seg = 1, !.run = @ + 1]
                 ELSE [@ EXCEPT !.pc = "complete"]]
    /\ UNCHANGED <<chOpen, tg, waits, ui, started, fx>>

\* _sweep_worker line 392: the completion callback is posted and the thread
\* ends
SW_complete(id) ==
    /\ RootAlive
    /\ sweeps[id].pc = "complete"
    /\ QueueRoom
    /\ sweeps' = [sweeps EXCEPT ![id] = DeadWorker]
    /\ uiq' = Post(uiq, Ev("complete", "none"))
    /\ UNCHANGED <<chOpen, tg, iv, waits, ui, started, fx>>

(* ------------------------------ start_sweep ---------------------------- *)
At(pc, ret) == [pc |-> pc, ret |-> ret, pk |-> "none", nruns |-> 0]

\* IVSweepApp.start_sweep lines 254-258: stop_event.clear() and the new thread
Spawn(i, sw, pk, nruns) ==
    /\ sweeps' = [id \in DOMAIN sw |->
                    IF id = Current THEN NewWorker(pk, nruns)
                    ELSE IF sw[Current].pc # "dead" THEN sw[Current]
                    ELSE sw[id]]
    /\ iv' = [i EXCEPT !.stop_event = FALSE, !.sweep_thread = Current]
    /\ started' = [started EXCEPT !.sweeps = @ + 1]

\* IVSweepApp.start_sweep lines 232-253, entered from the Run button
\* (ret = "run") or from _handle_trigger (ret = "ht"); the caller goes on at
\* IntegratedIVSweepApp.start_sweep line 142
StartSweep(ret, pk, nruns) ==
    IF iv.inst = None \/ pk = "invalid"
    THEN /\ ui' = At("check142", ret)
         /\ UNCHANGED <<iv, sweeps, started>>
    ELSE /\ started.sweeps < MaxSweeps
         /\ ~is_sweep_running \/ sweeps[Orphan].pc = "dead"
         /\ IF is_sweep_running
            THEN /\ iv' = [iv EXCEPT !.run_button = FALSE, !.stop_event = TRUE]
                 /\ UNCHANGED <<sweeps, started>>
                 /\ ui' = [pc |-> "ss_join", ret |-> ret, pk |-> pk,
                           nruns |-> nruns]
            ELSE /\ Spawn([iv EXCEPT !.run_button = FALSE], sweeps, pk, nruns)
                 /\ ui' = At("check142", ret)

\* Run Sweep button
IV_run ==
    /\ UIIdle
    /\ iv.run_button
    /\ \E pk \in ParamKinds, nruns \in 1..MaxRuns : StartSweep("run", pk, nruns)
    /\ UNCHANGED <<chOpen, tg, waits, uiq, fx>>

\* IVSweepApp.start_sweep line 253: join(timeout=1.0) returns, because the old
\* thread ended or because the second passed
UI_ss_join ==
    /\ ui.pc = "ss_join"
    /\ Spawn(iv, sweeps, ui.pk, ui.nruns)
    /\ ui' = At("check142", ui.ret)
    /\ UNCHANGED <<chOpen, tg, waits, uiq, fx>>

\* IntegratedIVSweepApp.start_sweep lines 142-143
UI_check142 ==
    /\ ui.pc = "check142"
    /\ tg' = IF is_sweep_running THEN on_iv_run_state_changed(tg, TRUE) ELSE tg
    /\ ui' = IF ui.ret = "ht" THEN At("check234", "ht") ELSE At("idle", "none")
    /\ UNCHANGED <<chOpen, iv, waits, sweeps, uiq, started, fx>>

(* ---------------------------- _handle_trigger -------------------------- *)
\* ReceiveAndIVApp._handle_trigger lines 214-231: the two early returns, then
\* attach_shared_instrument
UI_handle_trigger ==
    /\ UIIdle
    /\ uiq # <<>>
    /\ Head(uiq).kind = "trigger"
    /\ uiq' = Tail(uiq)
    /\ IF is_sweep_running \/ tg.inst = None
       THEN UNCHANGED <<iv, ui>>
       ELSE /\ iv' = attach_shared_instrument(iv, tg.inst, tg.rm)
            /\ ui' = At("ht_lock", "ht")
    /\ UNCHANGED <<chOpen, tg, waits, sweeps, started, fx>>

\* lines 232-233: set_instrument_lock(True), then start_sweep
UI_ht_lock ==
    /\ ui.pc = "ht_lock"
    /\ tg' = set_instrument_lock(tg, TRUE)
    /\ \E pk \in ParamKinds, nruns \in 1..MaxRuns : StartSweep("ht", pk, nruns)
    /\ UNCHANGED <<chOpen, waits, uiq, fx>>

\* lines 234-236
UI_check234 ==
    /\ ui.pc = "check234"
    /\ IF ~is_sweep_running
       THEN /\ iv' = release_shared_instrument(iv)
            /\ tg' = set_instrument_lock(tg, FALSE)
       ELSE UNCHANGED <<iv, tg>>
    /\ ui' = At("idle", "none")
    /\ UNCHANGED <<chOpen, waits, sweeps, uiq, started, fx>>

(* ----------------------- posted callbacks (Tk queue) -------------------- *)
\* ReceiveTriggerGUI._async_complete_wait.finish
UI_finish ==
    /\ UIIdle
    /\ uiq # <<>>
    /\ Head(uiq).kind = "finish"
    /\ uiq' = Tail(uiq)
    /\ tg' = finish(tg, Head(uiq).res)
    /\ UNCHANGED <<chOpen, iv, waits, sweeps, ui, started, fx>>

\* IntegratedIVSweepApp._on_sweep_complete / _on_sweep_failed: the base
\* handler enables the Run button, then _notify_run_state(False), then the
\* release when the session is shared
on_sweep_end_keeps_session(i) == [i EXCEPT !.run_button = TRUE]
on_sweep_end(i) == release_shared_instrument([i EXCEPT !.run_button = TRUE])

UI_on_sweep_complete ==
    /\ UIIdle
    /\ uiq # <<>>
    /\ Head(uiq).kind = "complete"
    /\ uiq' = Tail(uiq)
    /\ tg' = on_iv_run_state_changed(tg, FALSE)
    /\ iv' = on_sweep_end(iv)
    /\ UNCHANGED <<chOpen, waits, sweeps, ui, started, fx>>

UI_on_sweep_failed ==
    /\ UIIdle
    /\ uiq # <<>>
    /\ Head(uiq).kind = "failed"
    /\ uiq' = Tail(uiq)
    /\ tg' = on_iv_run_state_changed(tg, FALSE)
    /\ iv' = on_sweep_end(iv)
    /\ UNCHANGED <<chOpen, waits, sweeps, ui, started, fx>>

(* ------------------------------ window close --------------------------- *)
\* IntegratedIVSweepApp._stop_and_cleanup lines 176-182; the caller,
\* _handle_root_close, goes on with the listener's on_close
CloseRest ==
    /\ iv' = IF iv.using_shared_session THEN release_shared_instrument(iv)
             ELSE disconnect_instrument(iv)
    /\ chOpen' = cleanup_channel(iv, chOpen)
    /\ tg' = on_iv_run_state_changed(tg, FALSE)
    /\ ui' = At("close_trigger", "none")
    /\ UNCHANGED uiq

\* ReceiveAndIVApp._handle_root_close: force_close(confirm=False) sets
\* stop_event and joins a live sweep thread for at most two seconds
UI_root_close ==
    /\ UIIdle
    /\ IF is_sweep_running
       THEN /\ iv' = [iv EXCEPT !.stop_event = TRUE]
            /\ UNCHANGED sweeps
            /\ ui' = At("close_join", "none")
            /\ UNCHANGED <<tg, chOpen, uiq>>
       ELSE /\ CloseRest
            /\ UNCHANGED sweeps
    /\ UNCHANGED <<waits, started, fx>>

\* the join returned: the thread ended or the two seconds passed
UI_close_join ==
    /\ ui.pc = "close_join"
    /\ CloseRest
    /\ UNCHANGED <<waits, sweeps, started, fx>>

\* _handle_root_close lines 244-245: TriggerReceiveGUI.on_close, which is
\* disconnect behind the lock guard, then root.destroy()
UI_close_trigger ==
    /\ ui.pc = "close_trigger"
    /\ tg' = IF guard_if_locked(tg) THEN base_disconnect(tg) ELSE tg
    /\ chOpen' = IF guard_if_locked(tg) THEN CloseOf(tg, chOpen) ELSE chOpen
    /\ uiq' = <<>>
    /\ ui' = At("closed", "none")
    /\ UNCHANGED <<iv, waits, sweeps, started, fx>>

(* ------------------------------ specification -------------------------- *)
InitObjects ==
    /\ chOpen = [h \in Handles |-> FALSE]
    /\ tg = [inst |-> None, rm |-> FALSE, script_loaded |-> FALSE,
             waiting |-> FALSE, cancel_requested |-> FALSE,
             instrument_locked |-> FALSE, status_before_lock |-> NoStatus,
             status |-> "Disconnected",
             btn_connected |-> FALSE, btn_waiting |-> FALSE]
    /\ iv = [inst |-> None, rm |-> FALSE, script_loaded |-> FALSE,
             using_shared_session |-> FALSE, sweep_thread |-> None,
             stop_event |-> FALSE, run_button |-> FALSE,
             connect_button |-> TRUE, disconnect_button |-> FALSE]
    /\ waits = <<>>
    /\ sweeps = [id \in {Current, Orphan} |-> DeadWorker]
    /\ uiq = <<>>
    /\ ui = At("idle", "none")
    /\ started = [handles |-> 0, waits |-> 0, sweeps |-> 0]

\* no function call is followed
NoFx == [k |-> "none"]

Init == InitObjects /\ fx = NoFx

Next ==
    \/ TG_connect
    \/ TG_disconnect
    \/ TG_start_wait
    \/ TG_setup_trigger
    \/ TG_cancel_wait
    \/ TG_display
    \/ TG_refresh_errors
    \/ IV_connect
    \/ IV_disconnect
    \/ IV_run
    \/ UI_ss_join
    \/ UI_check142
    \/ UI_handle_trigger
    \/ UI_ht_lock
    \/ UI_check234
    \/ UI_finish
    \/ UI_on_sweep_complete
    \/ UI_on_sweep_failed
    \/ UI_root_close
    \/ UI_close_join
    \/ UI_close_trigger
    \/ \E k \in DOMAIN waits : W_return(k) \/ W_post_trigger(k)
    \/ \E id \in DOMAIN sweeps :
         \/ SW_build(id)
         \/ SW_load(id)
         \/ SW_wiring(id)
         \/ SW_segment(id)
         \/ SW_entry(id)
         \/ SW_read(id)
         \/ SW_reading(id)
         \/ SW_readback(id)
         \/ SW_complete(id)

Spec == Init /\ [][Next]_vars

(* ------------------------------- fairness ----------------------------- *)
\* a callback posted with root.after(0, ...) is dispatched
Dispatch ==
    UI_handle_trigger \/ UI_finish \/ UI_on_sweep_complete \/ UI_on_sweep_failed
\* a callback that was split at a thread-state read runs on
Continue ==
    UI_ss_join \/ UI_check142 \/ UI_ht_lock \/ UI_check234 \/ UI_close_join
    \/ UI_close_trigger
\* a step of sweep thread id
SweepStep(id) ==
    \/ SW_build(id) \/ SW_load(id) \/ SW_wiring(id) \/ SW_segment(id)
    \/ SW_entry(id) \/ SW_read(id) \/ SW_reading(id) \/ SW_readback(id) \/ SW_complete(id)
\* a pending read of sweep thread id ends with something else than a
\* measurement line
MarkerOrError(id) == SW_reading(id) /\ sweeps'[id].pc # "read"
\* a step of a wait thread
WaitStep == \E k \in DOMAIN waits : W_return(k) \/ W_post_trigger(k)

\* The Tk loop runs every posted callback and finishes every callback it
\* began; the operating system schedules every thread; the instrument ends
\* every segment with its marker unless a read fails.  Nothing is assumed
\* of the user.
FairSpec ==
    /\ Spec
    /\ SF_vars(Dispatch)
    /\ WF_vars(Continue)
    /\ WF_vars(WaitStep)
    /\ \A id \in {Current, Orphan} :
         WF_vars(SweepStep(id)) /\ SF_vars(MarkerOrError(id))

(* ------------------------- one sweep on its own ------------------------ *)
\* The stand-alone sweep window is connected (connect_instrument), Run Sweep
\* was pressed (start_sweep), and the worker has its segment plan
\* (_sweep_worker line 292) for the entered number of runs.
SweepInit ==
    /\ chOpen = [h \in Handles |-> h = 1]
    /\ tg = [inst |-> None, rm |-> FALSE, script_loaded |-> FALSE,
             waiting |-> FALSE, cancel_requested |-> FALSE,
             instrument_locked |-> TRUE,
             status_before_lock |-> "Disconnected", status |-> BusyStatus,
             btn_connected |-> FALSE, btn_waiting |-> FALSE]
    /\ iv = [inst |-> 1, rm |-> TRUE, script_loaded |-> FALSE,
             using_shared_session |-> FALSE, sweep_thread |-> Current,
             stop_event |-> FALSE, run_button |-> FALSE,
             connect_button |-> FALSE, disconnect_button |-> TRUE]
    /\ waits = <<>>
    /\ \E nruns \in 1..SweepRuns, nsegs \in 1..SweepSegs :
         sweeps = [id \in {Current, Orphan} |->
                     IF id = Current
                     THEN [NewWorker("none", nruns) EXCEPT !.pc = "load",
                                                           !.nsegs = nsegs]
                     ELSE DeadWorker]
    /\ uiq = <<>>
    /\ ui = At("idle", "none")
    /\ started = [handles |-> 1, waits |-> 0, sweeps |-> 1]
    /\ fx = NoFx

SweepNext ==
    \/ SW_load(Current)
    \/ SW_wiring(Current)
    \/ SW_segment(Current)
    \/ SW_entry(Current)
    \/ SW_read(Current)
    \/ SW_reading(Current)
    \/ SW_readback(Current)
    \/ SW_complete(Current)
    \/ UI_on_sweep_complete
    \/ UI_on_sweep_failed
    \/ IV_disconnect
    \/ UI_root_close
    \/ UI_close_join
    \/ UI_close_trigger

SweepSpec == SweepInit /\ [][SweepNext]_vars

(* ------------------- run records and their snapshots ------------------ *)
\* The list objects of one sweep.  heap[r] is the content of list object r:
\* a sequence of run entries, each the sequence of its points ("s" a value
\* streamed during the sweep, "b" a value read back from the buffer).
\* Object LiveRef is run_entries of _sweep_worker, object FirstResults the
\* list that __init__ puts in self.run_results.  Every run has one segment.
LiveRef == 1
FirstResults == 2

\* a snapshot that hands out the list itself
snapshot_is_the_list(heap, ref) == [heap |-> heap, ref |-> ref]

\* IVSweepApp._snapshot_entries: copy.deepcopy(entries), a new list object
snapshot_entries(heap, ref) ==
    [heap |-> Append(heap, heap[ref]), ref |-> Len(heap) + 1]

\* all points of a list of run entries, in order
RECURSIVE Points(_)
Points(entries) ==
    IF entries = <<>> THEN <<>> ELSE Head(entries) \o Points(Tail(entries))

DataInit ==
    /\ InitObjects
    /\ fx = [k |-> "data", heap |-> << <<>>, <<>> >>, wpc |-> "running",
             inrun |-> FALSE, segpts |-> 0, queue |-> <<>>,
             run_results |-> FirstResults, failed_done |-> FALSE]

DataFrame == UNCHANGED <<chOpen, tg, iv, waits, sweeps, uiq, ui, started>>
DataRoom == Len(fx.queue) < MaxQueue
\* root.after(0, lambda snap=snapshot: self._update_live_plot(snap)) after
\* the live records were changed to entries
PostSnapshot(f, entries) ==
    LET h1 == [f.heap EXCEPT ![LiveRef] = entries]
        snap == snapshot_entries(h1, LiveRef)
    IN [f EXCEPT !.heap = snap.heap,
                 !.queue = Append(@, [kind |-> "plot", ref |-> snap.ref,
                                      sent |-> snap.heap[snap.ref]])]

\* _sweep_worker lines 302-321: run_entries.append(current_entry)
D_new_run ==
    /\ fx.k = "data" /\ fx.wpc = "running"
    /\ ~fx.inrun
    /\ Len(fx.heap[LiveRef]) < DataRuns
    /\ fx' = [fx EXCEPT !.heap[LiveRef] = Append(@, <<>>), !.inrun = TRUE,
                        !.segpts = 0]
    /\ DataFrame

\* _sweep_worker.handle_point lines 325-346: the point joins the current
\* entry, then the snapshot is posted
D_point ==
    /\ fx.k = "data" /\ fx.wpc = "running"
    /\ fx.inrun /\ DataRoom
    /\ fx.segpts < DataPoints
    /\ LET live == fx.heap[LiveRef]
           n == Len(live)
       IN fx' = [PostSnapshot(fx, [live EXCEPT ![n] = Append(@, "s")])
                    EXCEPT !.segpts = @ + 1]
    /\ DataFrame

\* _sweep_worker lines 357-388: the points of the segment are replaced by
\* the values read back from the buffer, then the snapshot is posted
D_segment_end ==
    /\ fx.k = "data" /\ fx.wpc = "running"
    /\ fx.inrun /\ DataRoom
    /\ LET live == fx.heap[LiveRef]
           n == Len(live)
       IN fx' = [PostSnapshot(fx, [live EXCEPT ![n] =
                                      [i \in 1..fx.segpts |-> "b"]])
                    EXCEPT !.inrun = FALSE, !.segpts = 0]
    /\ DataFrame

\* _sweep_worker lines 389-391: an exception anywhere in the try block
D_fail ==
    /\ fx.k = "data" /\ fx.wpc = "running"
    /\ DataRoom
    /\ fx' = [fx EXCEPT !.wpc = "ended",
                        !.queue = Append(@, [kind |-> "failed", ref |-> None,
                                             sent |-> <<>>])]
    /\ DataFrame

\* _sweep_worker line 392: run_entries itself goes to _on_sweep_complete
D_complete ==
    /\ fx.k = "data" /\ fx.wpc = "running"
    /\ ~fx.inrun /\ DataRoom
    /\ fx.heap[LiveRef] # <<>>
    /\ fx' = [fx EXCEPT !.wpc = "ended",
                        !.queue = Append(@, [kind |-> "complete",
                                             ref |-> LiveRef,
                                             sent |-> fx.heap[LiveRef]])]
    /\ DataFrame

\* _update_live_plot line 599: self.run_results = entries
D_update_live_plot ==
    /\ fx.k = "data" /\ fx.queue # <<>>
    /\ Head(fx.queue).kind = "plot"
    /\ fx' = [fx EXCEPT !.queue = Tail(@), !.run_results = Head(fx.queue).ref]
    /\ DataFrame

\* _on_sweep_complete lines 661-684
D_on_sweep_complete ==
    /\ fx.k = "data" /\ fx.queue # <<>>
    /\ Head(fx.queue).kind = "complete"
    /\ LET r == Head(fx.queue).ref
       IN fx' = [fx EXCEPT !.queue = Tail(@), !.run_results = r,
                           !.heap[r] = IF @ = <<>> THEN <<>> ELSE @]
    /\ DataFrame

\* _on_sweep_failed lines 686-694: self.run_results.clear()
D_on_sweep_failed ==
    /\ fx.k = "data" /\ fx.queue # <<>>
    /\ Head(fx.queue).kind = "failed"
    /\ fx' = [fx EXCEPT !.queue = Tail(@), !.heap[fx.run_results] = <<>>,
                        !.failed_done = TRUE]
    /\ DataFrame

DataNext ==
    \/ D_new_run
    \/ D_point
    \/ D_segment_end
    \/ D_fail
    \/ D_complete
    \/ D_update_live_plot
    \/ D_on_sweep_complete
    \/ D_on_sweep_failed

DataSpec == DataInit /\ [][DataNext]_vars

(* ------------------- _read_until_marker, line by line ------------------ *)
\* A line is a sequence of characters: "M" stands for the marker text, "d"
\* for the text of a measurement, " " for a blank, tab or carriage return.
Chars == {"M", "d", " "}
\* the marker argument of _read_until_marker
Marker == <<"M">>
SeqsUpTo(S, n) == UNION {[1..m -> S] : m \in 0..n}
RawLines == SeqsUpTo(Chars, MaxLineLen)

RECURSIVE lstrip(_)
lstrip(l) == IF l # <<>> /\ Head(l) = " " THEN lstrip(Tail(l)) ELSE l
RECURSIVE rstrip(_)
rstrip(l) ==
    IF l # <<>> /\ l[Len(l)] = " " THEN rstrip(SubSeq(l, 1, Len(l) - 1)) ELSE l
\* str.strip()
strip(l) == rstrip(lstrip(l))

\* a loop that stores the line before it compares it with the marker
read_step_keeps_marker(f) ==
    IF f.stop THEN [f EXCEPT !.k = "raised"]
    ELSE IF f.pos = Len(f.stream) THEN [f EXCEPT !.k = "raised"]
    ELSE LET line == strip(f.stream[f.pos + 1])
             g == IF line # <<>>
                  THEN [f EXCEPT !.pos = @ + 1,
                                 !.parsed = Append(@, line),
                                 !.lines = Append(@, line)]
                  ELSE [f EXCEPT !.pos = @ + 1]
         IN IF line = Marker THEN [g EXCEPT !.k = "returned"] ELSE g

\* _read_until_marker lines 448-463, one iteration of the loop: the stop
\* test, inst.read().strip() (a VISA timeout once the instrument has sent
\* everything), the comparison with the marker, on_line and lines.append
read_step(f) ==
    IF f.stop THEN [f EXCEPT !.k = "raised"]
    ELSE IF f.pos = Len(f.stream) THEN [f EXCEPT !.k = "raised"]
    ELSE LET line == strip(f.stream[f.pos + 1])
         IN IF line = Marker
            THEN [f EXCEPT !.pos = @ + 1, !.k = "returned"]
            ELSE IF line # <<>>
            THEN [f EXCEPT !.pos = @ + 1,
                           !.parsed = Append(@, line),
                           !.lines = Append(@, line)]
            ELSE [f EXCEPT !.pos = @ + 1]

\* _read_until_marker is called (self.inst set): lines = []
ReadInit ==
    /\ InitObjects
    /\ \E stream \in SeqsUpTo(RawLines, MaxStream) :
         fx = [k |-> "loop", stream |-> stream, pos |-> 0, lines |-> <<>>,
               parsed |-> <<>>, stop |-> FALSE]

R_iteration ==
    /\ fx.k = "loop"
    /\ fx' = read_step(fx)
    /\ UNCHANGED <<chOpen, tg, iv, waits, sweeps, uiq, ui, started>>

\* stop_event.set() on the Tk thread while the loop runs
R_stop ==
    /\ fx.k = "loop"
    /\ ~fx.stop
    /\ fx' = [fx EXCEPT !.stop = TRUE]
    /\ UNCHANGED <<chOpen, tg, iv, waits, sweeps, uiq, ui, started>>

ReadNext == R_iteration \/ R_stop

ReadSpec == ReadInit /\ [][ReadNext]_vars

(* --------------------------- _build_segments --------------------------- *)
\* Voltages are whole numbers of a grid unit.  On the grid "tenth" the unit
\* is 0.1 V and epsilon = step_mag * 1e-9 + 1e-12 is far below one unit; on
\* the grid "pico" the unit is 1e-12 V and epsilon lies between one and two
\* units.  Between whole numbers a comparison with epsilon is a comparison
\* with its whole part, which is what epsilon gives here.
Grids == {"tenth", "pico"}
epsilon(step_mag, grid) == IF grid = "pico" THEN 1 ELSE 0
Abs(x) == IF x < 0 THEN -x ELSE x
Max(S) == CHOOSE x \in S : \A y \in S : y <= x
Min(S) == CHOOSE x \in S : \A y \in S : x <= y
\* math.isclose(a, b, abs_tol=tol); the relative tolerance 1e-9 is below one
\* unit for every level in range
isclose(a, b, tol) == Abs(a - b) <= tol

\* generate_segment_levels lines 505-516: the while loop
RECURSIVE ladder_loop(_, _, _, _, _)
ladder_loop(levels, current, stop, seg_step, eps) ==
    LET raw == current + seg_step
        next_level == IF seg_step > 0 /\ raw > stop + eps THEN stop
                      ELSE IF seg_step < 0 /\ raw < stop - eps THEN stop
                      ELSE raw
    IN IF isclose(next_level, current, eps) THEN levels
       ELSE IF isclose(next_level, stop, eps) THEN Append(levels, next_level)
       ELSE ladder_loop(Append(levels, next_level), next_level, stop,
                        seg_step, eps)

\* _build_segments.generate_segment_levels lines 499-517
generate_segment_levels(start, stop, seg_step, eps) ==
    IF isclose(seg_step, 0, eps) THEN <<start>>
    ELSE ladder_loop(<<start>>, start, stop, seg_step, eps)

\* _build_segments.append_segment lines 519-525; a segment is the tuple
\* (start, stop, seg_step)
append_segment(plan, start, stop, step_mag, eps) ==
    IF isclose(start, stop, eps) THEN plan
    ELSE LET seg_step == IF stop >= start THEN step_mag ELSE -step_mag
         IN [segments |-> Append(plan.segments, <<start, stop, seg_step>>),
             path |-> plan.path \o
                      generate_segment_levels(start, stop, seg_step, eps)]

\* lines 527-535: the pair for the positive target, then the pair for the
\* negative target
zero_anchored(start_v, stop_v, step_mag, eps) ==
    LET positive_target == Max({start_v, stop_v, 0})
        negative_target == Min({start_v, stop_v, 0})
        p0 == [segments |-> <<>>, path |-> <<>>]
        p1 == IF positive_target > eps
              THEN append_segment(
                     append_segment(p0, 0, positive_target, step_mag, eps),
                     positive_target, 0, step_mag, eps)
              ELSE p0
    IN IF negative_target < -eps
       THEN append_segment(
              append_segment(p1, 0, negative_target, step_mag, eps),
              negative_target, 0, step_mag, eps)
       ELSE p1

\* a planner that goes to the negative target first
build_segments_negative_first(start_v, stop_v, step_v, grid) ==
    LET step_mag == Abs(step_v)
        eps == epsilon(step_mag, grid)
        positive_target == Max({start_v, stop_v, 0})
        negative_target == Min({start_v, stop_v, 0})
        p0 == [segments |-> <<>>, path |-> <<>>]
        p1 == IF negative_target < -eps
              THEN append_segment(
                     append_segment(p0, 0, negative_target, step_mag, eps),
                     negative_target, 0, step_mag, eps)
              ELSE p0
        p2 == IF positive_target > eps
              THEN append_segment(
                     append_segment(p1, 0, positive_target, step_mag, eps),
                     positive_target, 0, step_mag, eps)
              ELSE p1
    IN IF step_mag = 0 THEN [k |-> "rejected"]
       ELSE IF p2.segments = <<>>
       THEN [k |-> "planned", segments |-> <<<<start_v, stop_v, step_v>>>>,
             path |-> generate_segment_levels(start_v, stop_v, step_v, eps)]
       ELSE [k |-> "planned", segments |-> p2.segments, path |-> p2.path]

\* a planner that goes straight from start to stop when both lie on the
\* same side of zero
build_segments_direct_one_sided(start_v, stop_v, step_v, grid) ==
    LET step_mag == Abs(step_v)
        eps == epsilon(step_mag, grid)
        p == IF start_v * stop_v > 0
             THEN [segments |-> <<>>, path |-> <<>>]
             ELSE zero_anchored(start_v, stop_v, step_mag, eps)
    IN IF step_mag = 0 THEN [k |-> "rejected"]
       ELSE IF p.segments = <<>>
       THEN [k |-> "planned", segments |-> <<<<start_v, stop_v, step_v>>>>,
             path |-> generate_segment_levels(start_v, stop_v, step_v, eps)]
       ELSE [k |-> "planned", segments |-> p.segments, path |-> p.path]

\* a planner that visits the side of zero on which start lies first
build_segments_start_side_first(start_v, stop_v, step_v, grid) ==
    LET step_mag == Abs(step_v)
        eps == epsilon(step_mag, grid)
        p == zero_anchored(start_v, stop_v, step_mag, eps)
    IN IF start_v < 0
       THEN build_segments_negative_first(start_v, stop_v, step_v, grid)
       ELSE IF step_mag = 0 THEN [k |-> "rejected"]
       ELSE IF p.segments = <<>>
       THEN [k |-> "planned", segments |-> <<<<start_v, stop_v, step_v>>>>,
             path |-> generate_segment_levels(start_v, stop_v, step_v, eps)]
       ELSE [k |-> "planned", segments |-> p.segments, path |-> p.path]

\* IVSweepApp._build_segments lines 488-544.  A step of magnitude zero is
\* the only step on a grid that isclose(step_mag, 0.0, abs_tol=1e-15)
\* rejects.  The path is never empty, so lines 541-542 add nothing
build_segments(start_v, stop_v, step_v, grid) ==
    LET step_mag == Abs(step_v)
        eps == epsilon(step_mag, grid)
        p == zero_anchored(start_v, stop_v, step_mag, eps)
    IN IF step_mag = 0 THEN [k |-> "rejected"]
       ELSE IF p.segments = <<>>
       THEN [k |-> "planned", segments |-> <<<<start_v, stop_v, step_v>>>>,
             path |-> generate_segment_levels(start_v, stop_v, step_v, eps)]
       ELSE [k |-> "planned", segments |-> p.segments, path |-> p.path]

\* the sweep of the end-to-end scenario: -4.0 V to 4.0 V in steps of 0.1 V
ScenarioInput == [grid |-> "tenth", start |-> -40, stop |-> 40, step |-> 1]
PlanInputs ==
    [grid : Grids, start : -PlanRange..PlanRange, stop : -PlanRange..PlanRange,
     step : -PlanRange..PlanRange] \cup {ScenarioInput}

\* _build_segments is called with some parameters
PlanInit ==
    /\ InitObjects
    /\ \E in \in PlanInputs : fx = [k |-> "plan", in |-> in]

\* the call returns its segments and path, or raises ValueError
P_build_segments ==
    /\ fx.k = "plan"
    /\ fx' = [build_segments(fx.in.start, fx.in.stop, fx.in.step, fx.in.grid)
                EXCEPT !.k = @] @@ [in |-> fx.in]
    /\ UNCHANGED <<chOpen, tg, iv, waits, sweeps, uiq, ui, started>>

PlanNext == P_build_segments

PlanSpec == PlanInit /\ [][PlanNext]_vars

(* ------------------------ _match_voltage_sequence ---------------------- *)
\* Levels are whole numbers of 0.1 microvolt.  The floor 1e-6 V of the
\* tolerance is then ten units
TolFloor == 10
\* max(base_step * 0.02, 1e-6), as far as whole numbers can tell
match_tolerance(base_step) == Max({(base_step * 2) \div 100, TolFloor})

\* a loop that judges every point on its own
RECURSIVE match_loop_per_point(_, _, _, _, _, _)
match_loop_per_point(idx, length, expected, actual, tolerance, acc) ==
    IF idx > length THEN acc
    ELSE match_loop_per_point(idx + 1, length, expected, actual, tolerance,
           [acc EXCEPT !.matched =
              Append(@, IF Abs(expected[idx] - actual[idx]) > tolerance
                        THEN expected[idx] ELSE actual[idx])])

\* lines 560-568: the scan; acc holds stuck_index (None until set; indices
\* count from 1) and matched
RECURSIVE match_loop(_, _, _, _, _, _)
match_loop(idx, length, expected, actual, tolerance, acc) ==
    IF idx > length THEN acc
    ELSE LET stuck_index ==
                 IF acc.stuck_index = None
                      /\ Abs(expected[idx] - actual[idx]) > tolerance
                 THEN idx ELSE acc.stuck_index
         IN match_loop(idx + 1, length, expected, actual, tolerance,
                [stuck_index |-> stuck_index,
                 matched |-> Append(acc.matched,
                                    IF stuck_index = None THEN actual[idx]
                                    ELSE expected[idx])])

\* lines 550-557
base_step_of(expected, length) ==
    LET step_candidates ==
            {Abs(expected[i + 1] - expected[i]) :
               i \in {j \in 1..(length - 1) : expected[j + 1] # expected[j]}}
    IN IF step_candidates = {} THEN 0 ELSE Min(step_candidates)

\* a reconciler whose scan leaves out the last index
match_stops_early(expected, actual) ==
    IF expected = <<>> \/ actual = <<>> THEN actual
    ELSE LET length == Min({Len(expected), Len(actual)})
             tolerance == match_tolerance(base_step_of(expected, length))
         IN match_loop(1, length - 1, expected, actual, tolerance,
                       [stuck_index |-> None, matched |-> <<>>]).matched
              \o SubSeq(actual, length + 1, Len(actual))

\* a reconciler that is not sticky
match_not_sticky(expected, actual) ==
    IF expected = <<>> \/ actual = <<>> THEN actual
    ELSE LET length == Min({Len(expected), Len(actual)})
             tolerance == match_tolerance(base_step_of(expected, length))
         IN match_loop_per_point(1, length, expected, actual, tolerance,
                       [stuck_index |-> None, matched |-> <<>>]).matched
              \o SubSeq(actual, length + 1, Len(actual))

\* a reconciler that forgets the points beyond the commanded ones
match_drops_extra(expected, actual) ==
    IF expected = <<>> \/ actual = <<>> THEN actual
    ELSE LET length == Min({Len(expected), Len(actual)})
             tolerance == match_tolerance(base_step_of(expected, length))
         IN match_loop(1, length, expected, actual, tolerance,
                       [stuck_index |-> None, matched |-> <<>>]).matched

\* IVSweepApp._match_voltage_sequence lines 546-570
match_voltage_sequence(expected, actual) ==
    IF expected = <<>> \/ actual = <<>> THEN actual
    ELSE LET length == Min({Len(expected), Len(actual)})
             tolerance == match_tolerance(base_step_of(expected, length))
         IN match_loop(1, length, expected, actual, tolerance,
                       [stuck_index |-> None, matched |-> <<>>]).matched
              \o SubSeq(actual, length + 1, Len(actual))

\* levels 0, 0.4 uV, 1.5 uV and 100 uV
MatchLevels == {0, 4, 15, 1000}
\* commanded 0..4 V in steps of 1 V, measured clipped at 2 V
ExampleCommanded == <<0, 10000000, 20000000, 30000000, 40000000>>
ExampleMeasured == <<0, 10000000, 20000000, 20000000, 20000000>>

MatchInit ==
    /\ InitObjects
    /\ \E e, a \in SeqsUpTo(MatchLevels, MatchLen) \cup
                     {ExampleCommanded, ExampleMeasured} :
         fx = [k |-> "match", expected |-> e, actual |-> a]

M_match_voltage_sequence ==
    /\ fx.k = "match"
    /\ fx' = [k |-> "matched", expected |-> fx.expected, actual |-> fx.actual,
              out |-> match_voltage_sequence(fx.expected, fx.actual)]
    /\ UNCHANGED <<chOpen, tg, iv, waits, sweeps, uiq, ui, started>>

MatchNext == M_match_voltage_sequence

MatchSpec == MatchInit /\ [][MatchNext]_vars

(* ------------------------- the adjusted flag --------------------------- *)
\* Levels are whole numbers of 0.1 microvolt, as for the reconciler; for the
\* planner this unit is far above epsilon, like the unit of the grid "tenth".
\* _sweep_worker line 294: tolerance = max(abs(params[2]) * 0.02, 1e-6)
worker_tolerance(step_v) == Max({(Abs(step_v) * 2) \div 100, TolFloor})

\* handle_point lines 326-337: the commanded level of the point, then the
\* test that sets the flag
adjusted_after_point(adjusted, command_levels, command_index, voltage, tolerance) ==
    LET commanded == IF command_index < Len(command_levels)
                     THEN command_levels[command_index + 1] ELSE voltage
    IN adjusted \/ Abs(voltage - commanded) > tolerance

\* a segment end that leaves the flag alone
adjusted_after_segment_unchecked(adjusted, command_slice, segment_voltages, tolerance) ==
    adjusted

\* _sweep_worker lines 361-375: the segment's buffer values are reconciled
\* with the commanded slice and compared with the result
adjusted_after_segment(adjusted, command_slice, segment_voltages, tolerance) ==
    IF segment_voltages = <<>> THEN adjusted
    ELSE LET segment_corrected ==
                 match_voltage_sequence(command_slice, segment_voltages)
         IN IF segment_corrected = <<>> THEN adjusted
            ELSE adjusted \/
                 \E j \in 1..Min({Len(segment_voltages),
                                   Len(segment_corrected)}) :
                    Abs(segment_voltages[j] - segment_corrected[j]) > tolerance

\* command_levels[segment_start_idx:segment_end_idx]
Slice(levels, from, to) == SubSeq(levels, from + 1, Min({to, Len(levels)}))

\* what a measured level may differ from its commanded level by: nothing,
\* 1.5 mV, 3 mV
FlagOffsets == {0, 15000, 30000}
\* sweeps from 0 to 0.15 V and to 0.2 V, in steps of 0.1 V either way
FlagInputs ==
    [start : {0}, stop : {1500000, 2000000}, step : {1000000, -1000000}]

\* _sweep_worker lines 292-294 have run: the plan and the tolerance
FlagInit ==
    /\ InitObjects
    /\ \E in \in FlagInputs :
         LET plan == build_segments(in.start, in.stop, in.step, "tenth")
         IN fx = [k |-> "flag", pc |-> "idle", levels |-> plan.path,
                  nsegs |-> Len(plan.segments),
                  tolerance |-> worker_tolerance(in.step),
                  run |-> 0, seg |-> 0, command_index |-> 0,
                  segment_start_idx |-> 0, adjusted |-> FALSE,
                  diverged |-> FALSE]

FlagFrame == UNCHANGED <<chOpen, tg, iv, waits, sweeps, uiq, ui, started>>

\* lines 302-321: a run begins, its entry has adjusted False
F_new_run ==
    /\ fx.k = "flag"
    /\ fx.pc \in {"idle", "run_end"}
    /\ fx.run < FlagRuns
    /\ fx' = [fx EXCEPT !.pc = "segment", !.run = @ + 1, !.seg = 1,
                        !.command_index = 0, !.segment_start_idx = 0,
                        !.adjusted = FALSE, !.diverged = FALSE]
    /\ FlagFrame

\* handle_point: a streamed point.  diverged records whether a measured
\* level that has a commanded level has differed from it by more than the
\* worker's tolerance in this run
F_handle_point ==
    /\ fx.k = "flag"
    /\ fx.pc = "segment"
    /\ fx.command_index - fx.segment_start_idx < FlagPoints
    /\ \E off \in FlagOffsets :
         LET has == fx.command_index < Len(fx.levels)
             voltage == (IF has THEN fx.levels[fx.command_index + 1] ELSE 0)
                          + off
         IN fx' = [fx EXCEPT
                     !.command_index = @ + 1,
                     !.adjusted = adjusted_after_point(@, fx.levels,
                                     fx.command_index, voltage, fx.tolerance),
                     !.diverged = @ \/ (has /\ off > fx.tolerance)]
    /\ FlagFrame

\* lines 350-388: _perform_sweep returns the buffer values of the segment,
\* as many as were streamed, one fewer or one more
F_segment_end ==
    /\ fx.k = "flag"
    /\ fx.pc = "segment"
    /\ LET command_slice == Slice(fx.levels, fx.segment_start_idx,
                                  fx.command_index)
           streamed == fx.command_index - fx.segment_start_idx
           counts == {n \in {streamed - 1, streamed, streamed + 1} : n >= 0}
       IN \E n \in counts : \E offs \in [1..n -> FlagOffsets] :
            LET segment_voltages ==
                    [j \in 1..n |->
                       (IF j <= Len(command_slice) THEN command_slice[j]
                        ELSE 0) + offs[j]]
                div == \E j \in 1..Min({n, Len(command_slice)}) :
                          offs[j] > fx.tolerance
            IN fx' = [fx EXCEPT
                        !.adjusted = adjusted_after_segment(@, command_slice,
                                        segment_voltages, fx.tolerance),
                        !.diverged = @ \/ div,
                        !.segment_start_idx = fx.command_index,
                        !.seg = IF @ < fx.nsegs THEN @ + 1 ELSE @,
                        !.pc = IF fx.seg < fx.nsegs THEN "segment"
                               ELSE "run_end"]
    /\ FlagFrame

FlagNext == F_new_run \/ F_handle_point \/ F_segment_end

FlagSpec == FlagInit /\ [][FlagNext]_vars

(* ---------------- _read_response_lines / _query_lines ------------------ *)
\* The two voltage-measurement programs read a response with the same
\* helper: _query_lines + _read_response_lines in
\* 2450_async_trigger_measure_voltage.py (324-355) and _query_lines in
\* 2450_receive_measure_voltage_gui.py (511-538).
Helpers == {"_read_response_lines", "_query_lines"}
\* DRAIN_TIMEOUT_MS of each file
DRAIN_TIMEOUT_MS ==
    [h \in Helpers |-> IF h = "_read_response_lines" THEN 250 ELSE 750]
\* connect: self.inst.timeout = 20000
ConnectTimeout == 20000

\* what inst.read() gives: a line (measurement text, with or without a
\* trailing blank, or blanks only), a VISA timeout, another VisaIOError
DrainReads == {<<"d">>, <<"d", " ">>, <<" ">>}
ReadErrors == {"VI_ERROR_TMO", "VI_ERROR_IO"}

\* min(original_timeout, DRAIN_TIMEOUT_MS)
drain_timeout(helper, original_timeout) ==
    Min({original_timeout, DRAIN_TIMEOUT_MS[helper]})

\* a drain that restores the timeout only when it ends on a timeout
exit_timeout_without_finally(error_code, original_timeout, current) ==
    IF error_code = "VI_ERROR_TMO" THEN original_timeout ELSE current

\* the drain's finally clause: inst.timeout = original_timeout
exit_timeout(error_code, original_timeout, current) == original_timeout

\* lines.append(text) if text is not empty
append_line(lines, raw) ==
    IF strip(raw) # <<>> THEN Append(lines, strip(raw)) ELSE lines

DrainInit ==
    /\ InitObjects
    /\ \E h \in Helpers :
         fx = [k |-> "drain", helper |-> h, pc |-> "idle", calls |-> 0,
               timeout |-> ConnectTimeout, entry |-> ConnectTimeout,
               original_timeout |-> ConnectTimeout, lines |-> <<>>,
               reads |-> 0, exit |-> "none"]

DrainFrame == UNCHANGED <<chOpen, tg, iv, waits, sweeps, uiq, ui, started>>

\* the helper is called: inst.write(command), then
\* original_timeout = inst.timeout
T_call ==
    /\ fx.k = "drain"
    /\ fx.pc \in {"idle", "returned", "raised"}
    /\ fx.calls < DrainCalls
    /\ fx' = [fx EXCEPT !.pc = "first_read", !.calls = @ + 1,
                        !.entry = fx.timeout,
                        !.original_timeout = fx.timeout,
                        !.lines = <<>>, !.reads = 0, !.exit = "none"]
    /\ DrainFrame

\* the first read and its except clause; then the drain timeout is set
T_first_read ==
    /\ fx.k = "drain"
    /\ fx.pc = "first_read"
    /\ \/ \E raw \in DrainReads :
            fx' = [fx EXCEPT !.pc = "drain",
                             !.lines = append_line(@, raw),
                             !.timeout = drain_timeout(fx.helper,
                                                       fx.original_timeout)]
       \/ \E error_code \in ReadErrors :
            fx' = [fx EXCEPT !.pc = "raised",
                             !.timeout = fx.original_timeout,
                             !.exit = "first_error"]
    /\ DrainFrame

\* one read of the drain loop that gives a line
T_drain_line ==
    /\ fx.k = "drain"
    /\ fx.pc = "drain"
    /\ fx.reads < MaxDrainLines
    /\ \E raw \in DrainReads :
         fx' = [fx EXCEPT !.lines = append_line(@, raw), !.reads = @ + 1]
    /\ DrainFrame

\* one read of the drain loop that raises: a timeout ends the drain, any
\* other error is raised again; the finally clause runs either way
T_drain_end ==
    /\ fx.k = "drain"
    /\ fx.pc = "drain"
    /\ \E error_code \in ReadErrors :
         fx' = [fx EXCEPT
                  !.pc = IF error_code = "VI_ERROR_TMO" THEN "returned"
                         ELSE "raised",
                  !.exit = IF error_code = "VI_ERROR_TMO" THEN "drain_timeout"
                           ELSE "drain_error",
                  !.timeout = exit_timeout(error_code, fx.original_timeout,
                                           fx.timeout)]
    /\ DrainFrame

DrainNext == T_call \/ T_first_read \/ T_drain_line \/ T_drain_end

DrainSpec == DrainInit /\ [][DrainNext]_vars

(* ------------------- _perform_sweep after the marker ------------------- *)
\* Text is a sequence of tokens (what split() gives).  float() of a token:
\* values are whole tenths; "nil" is no number.
Float == [t \in {"1.0", "2.0"} |-> IF t = "1.0" THEN 10 ELSE 20]
Tokens == DOMAIN Float \cup {"nil"}

\* lines the segment may print: two measurements (index, level, response),
\* a line whose first column is no number, a line with two columns
PrintedLines ==
    {<<"1.0", "1.0", "2.0">>, <<"2.0", "2.0", "1.0">>,
     <<"nil", "1.0", "1.0">>, <<"1.0", "1.0">>}

\* _parse_measurement_line: None (here <<>>) or <<(voltage, current)>>
parse_measurement_line(parts) ==
    IF Len(parts) < 3 THEN <<>>
    ELSE IF \E i \in 1..3 : parts[i] \notin DOMAIN Float THEN <<>>
    ELSE <<[voltage |-> Float[parts[2]], current |-> Float[parts[3]]]>>

\* _parse_printed_lines
RECURSIVE parse_printed_lines(_)
parse_printed_lines(lines) ==
    IF lines = <<>> THEN <<>>
    ELSE parse_measurement_line(Head(lines)) \o parse_printed_lines(Tail(lines))

\* _fetch_buffer on the tokens of the response: count == 0 sends nothing
RECURSIVE float_tokens(_)
float_tokens(response) ==
    IF response = <<>> THEN <<>>
    ELSE (IF Head(response) \in DOMAIN Float
          THEN <<Float[Head(response)]>> ELSE <<>>)
         \o float_tokens(Tail(response))
fetch_buffer(count, response) ==
    IF count = 0 THEN <<>> ELSE float_tokens(response)

\* zip of two lists cut to the shorter one
zip_pairs(voltages, currents) ==
    [i \in 1..Min({Len(voltages), Len(currents)}) |->
        [voltage |-> voltages[i], current |-> currents[i]]]

\* _perform_sweep lines 428-441: what the segment returns
perform_sweep_result(printed_lines, point_count, voltages, currents) ==
    IF Len(voltages) # point_count \/ Len(currents) # point_count
    THEN LET parsed == parse_printed_lines(printed_lines)
         IN IF parsed # <<>> THEN parsed ELSE zip_pairs(voltages, currents)
    ELSE zip_pairs(voltages, currents)

FetchInit ==
    /\ InitObjects
    /\ fx = [k |-> "fetch", pc |-> "read_until_marker", printed_lines |-> <<>>,
             live |-> <<>>, point_count |-> 0, voltages |-> <<>>,
             currents |-> <<>>, result |-> <<>>]

FetchFrame == UNCHANGED <<chOpen, tg, iv, waits, sweeps, uiq, ui, started>>

\* lines 424-425: the lines before the marker; handle_line has parsed each
B_read_until_marker ==
    /\ fx.k = "fetch"
    /\ fx.pc = "read_until_marker"
    /\ \E lines \in SeqsUpTo(PrintedLines, FetchLines) :
         fx' = [fx EXCEPT !.pc = "point_count", !.printed_lines = lines,
                          !.live = parse_printed_lines(lines)]
    /\ FetchFrame

\* line 426: print(defbuffer1.n)
B_point_count ==
    /\ fx.k = "fetch"
    /\ fx.pc = "point_count"
    /\ \E n \in 0..FetchCount :
         fx' = [fx EXCEPT !.pc = "sourcevalues", !.point_count = n]
    /\ FetchFrame

\* line 427: _fetch_buffer("defbuffer1.sourcevalues", point_count)
B_fetch_voltages ==
    /\ fx.k = "fetch"
    /\ fx.pc = "sourcevalues"
    /\ \E response \in SeqsUpTo(Tokens, FetchTokens) :
         fx' = [fx EXCEPT !.pc = "readings",
                          !.voltages = fetch_buffer(fx.point_count, response)]
    /\ FetchFrame

\* lines 428-442: _fetch_buffer("defbuffer1", point_count), then the choice
\* between the readback and the printed lines
B_fetch_currents ==
    /\ fx.k = "fetch"
    /\ fx.pc = "readings"
    /\ \E response \in SeqsUpTo(Tokens, FetchTokens) :
         LET currents == fetch_buffer(fx.point_count, response)
         IN fx' = [fx EXCEPT
                     !.pc = "returned", !.currents = currents,
                     !.result = perform_sweep_result(fx.printed_lines,
                                   fx.point_count, fx.voltages, currents)]
    /\ FetchFrame

FetchNext ==
    B_read_until_marker \/ B_point_count \/ B_fetch_voltages
    \/ B_fetch_currents

FetchSpec == FetchInit /\ [][FetchNext]_vars

(* ------------------ generate_segment_levels, step by step -------------- *)
\* The ladder of one segment of a plan, one loop iteration per step.
LadderInit ==
    /\ InitObjects
    /\ \E in \in PlanInputs :
         LET plan == build_segments(in.start, in.stop, in.step, in.grid)
         IN /\ plan.k = "planned"
            /\ \E i \in 1..Len(plan.segments) :
                 fx = [k |-> "ladder", pc |-> "called",
                       start |-> plan.segments[i][1],
                       stop |-> plan.segments[i][2],
                       seg_step |-> plan.segments[i][3],
                       eps |-> epsilon(Abs(in.step), in.grid),
                       levels |-> <<>>, current |-> 0]

\* lines 500-504: levels = [start]; a step within epsilon of zero returns
G_enter ==
    /\ fx.k = "ladder"
    /\ fx.pc = "called"
    /\ fx' = [fx EXCEPT !.levels = <<fx.start>>, !.current = fx.start,
                        !.pc = IF isclose(fx.seg_step, 0, fx.eps)
                               THEN "returned" ELSE "loop"]
    /\ UNCHANGED <<chOpen, tg, iv, waits, sweeps, uiq, ui, started>>

\* lines 505-516: one iteration of the while loop
G_iteration ==
    /\ fx.k = "ladder"
    /\ fx.pc = "loop"
    /\ LET raw == fx.current + fx.seg_step
           next_level ==
               IF fx.seg_step > 0 /\ raw > fx.stop + fx.eps THEN fx.stop
               ELSE IF fx.seg_step < 0 /\ raw < fx.stop - fx.eps THEN fx.stop
               ELSE raw
       IN IF isclose(next_level, fx.current, fx.eps)
          THEN fx' = [fx EXCEPT !.pc = "returned"]
          ELSE fx' = [fx EXCEPT
                        !.levels = Append(@, next_level),
                        !.current = next_level,
                        !.pc = IF isclose(next_level, fx.stop, fx.eps)
                               THEN "returned" ELSE "loop"]
    /\ UNCHANGED <<chOpen, tg, iv, waits, sweeps, uiq, ui, started>>

LadderNext == G_enter \/ G_iteration

\* the thread that runs the loop is scheduled until the loop ends
LadderSpec == LadderInit /\ [][LadderNext]_vars /\ WF_vars(LadderNext)

(* ------------------ whose lines a segment's loop reads ----------------- *)
\* The channel delivers the instrument's lines in the order they were
\* printed.  The instrument runs the commands in the order they were written;
\* pending holds the lines it has still to print, chan those it has printed
\* and the program has not read.  A line carries its text -- a measurement,
\* the marker SWEEP_DONE_<run>_<seg>, or the answer to a buffer query -- and,
\* for the record only, the number of the segment execution that asked for it.
marker_of(run_index, segment_index) ==
    [text |-> "SWEEP_DONE", run |-> run_index + 1, seg |-> segment_index + 1]
OutputOf(exec, n, marker) ==
    [i \in 1..n |-> [text |-> "measurement", run |-> 0, seg |-> 0,
                     exec |-> exec]]
    \o <<marker @@ [exec |-> exec]>>
TextOf(line) == [text |-> line.text, run |-> line.run, seg |-> line.seg]

AttrInit ==
    /\ InitObjects
    /\ fx = [k |-> "attr", pc |-> "idle", sweep |-> 0, run_index |-> 0,
             segment_index |-> 0, exec |-> 0, chan |-> <<>>, pending |-> <<>>,
             data |-> <<>>, ended_by |-> 0, queries |-> 0]

AttrFrame == UNCHANGED <<chOpen, tg, iv, waits, sweeps, uiq, ui, started>>

\* start_sweep lines 250-258, with no sweep thread alive: a new worker on
\* the session that is connected
A_start_sweep ==
    /\ fx.k = "attr"
    /\ fx.pc \in {"idle", "failed", "complete"}
    /\ fx.sweep < AttrSweeps
    /\ fx' = [fx EXCEPT !.pc = "write", !.sweep = @ + 1, !.run_index = 0,
                        !.segment_index = 0]
    /\ AttrFrame

\* _perform_sweep lines 408-412: the segment command and the print of the
\* marker are written; the instrument will print the segment's lines
A_write ==
    /\ fx.k = "attr"
    /\ fx.pc = "write"
    /\ \E n \in 0..AttrPoints :
         fx' = [fx EXCEPT
                  !.pc = "loop", !.exec = @ + 1, !.data = <<>>,
                  !.ended_by = 0, !.queries = 0,
                  !.pending = @ \o OutputOf(fx.exec + 1, n,
                                   marker_of(fx.run_index, fx.segment_index))]
    /\ AttrFrame

\* the instrument prints its next line
I_print ==
    /\ fx.k = "attr"
    /\ fx.pending # <<>>
    /\ fx' = [fx EXCEPT !.chan = Append(@, Head(fx.pending)),
                        !.pending = Tail(@)]
    /\ AttrFrame

\* _read_until_marker lines 448-463 with a line to read: the marker ends
\* the loop, handle_line records a measurement, other lines are kept raw
A_read_line ==
    /\ fx.k = "attr"
    /\ fx.pc = "loop"
    /\ fx.chan # <<>>
    /\ LET line == Head(fx.chan)
       IN IF TextOf(line) = marker_of(fx.run_index, fx.segment_index)
          THEN fx' = [fx EXCEPT !.chan = Tail(@), !.pc = "query",
                                !.ended_by = line.exec]
          ELSE IF line.text = "measurement"
          THEN fx' = [fx EXCEPT !.chan = Tail(@),
                                !.data = Append(@, line.exec)]
          ELSE fx' = [fx EXCEPT !.chan = Tail(@)]
    /\ AttrFrame

\* lines 453-454, 387-389: a read that times out fails the sweep
A_read_timeout ==
    /\ fx.k = "attr"
    /\ fx.pc \in {"loop", "answer"}
    /\ fx.chan = <<>>
    /\ fx' = [fx EXCEPT !.pc = "failed"]
    /\ AttrFrame

\* lines 426-428, inst.query: the write of print(defbuffer1.n) or of a
\* printbuffer
A_query ==
    /\ fx.k = "attr"
    /\ fx.pc = "query"
    /\ fx' = [fx EXCEPT
                !.pc = "answer",
                !.pending = Append(@, [text |-> "answer", run |-> 0,
                                       seg |-> 0, exec |-> fx.exec])]
    /\ AttrFrame

\* inst.query: the read of the answer; after the third query the segment
\* is over, and the next segment, the next run or the end of the sweep follows
A_answer ==
    /\ fx.k = "attr"
    /\ fx.pc = "answer"
    /\ fx.chan # <<>>
    /\ fx' = [fx EXCEPT
                !.chan = Tail(@), !.queries = @ + 1,
                !.pc = IF fx.queries < 2 THEN "query"
                       ELSE IF fx.segment_index + 1 < AttrSegs
                               \/ fx.run_index + 1 < AttrRuns
                       THEN "write" ELSE "complete",
                !.segment_index =
                    IF fx.queries < 2 THEN @
                    ELSE IF @ + 1 < AttrSegs THEN @ + 1 ELSE 0,
                !.run_index =
                    IF fx.queries = 2 /\ fx.segment_index + 1 = AttrSegs
                       /\ @ + 1 < AttrRuns
                    THEN @ + 1 ELSE @]
    /\ AttrFrame

AttrNext ==
    A_start_sweep \/ A_write \/ I_print \/ A_read_line \/ A_read_timeout
    \/ A_query \/ A_answer

AttrSpec == AttrInit /\ [][AttrNext]_vars

(* ------------------------ the lists of a run --------------------------- *)
\* A measured value is written [seg, src, n, v]: the segment it belongs to,
\* whether it was streamed ("live") or read back ("buffer"), its number in
\* the segment and its level in units of 0.1 microvolt.  A current is
\* written the same way, its value being of no interest.
Meas(seg, src, n, v) == [seg |-> seg, src |-> src, n |-> n, v |-> v]
ValuesOf(list) == [j \in 1..Len(list) |-> list[j].v]

\* Python: list[a:b] = new, for 0 <= a <= b
slice_assign(list, a, b, new) ==
    LET lo == Min({a, Len(list)})
        hi == Min({b, Len(list)})
    IN SubSeq(list, 1, lo) \o new \o SubSeq(list, hi + 1, Len(list))
\* Python: list[-n:] = new, for n > 0
tail_assign(list, n, new) == SubSeq(list, 1, Max({Len(list) - n, 0})) \o new

\* the sweep from 0 to 0.2 V in steps of 0.1 V: two segments
ShapePlan == build_segments(0, 2000000, 1000000, "tenth")

\* lines 337-341, 377-381: the entry of the current run takes copies of the
\* run lists
update_entry(entries, voltages, currents, commanded) ==
    [entries EXCEPT ![Len(entries)] =
        [@ EXCEPT !.actual_voltages = voltages, !.currents = currents,
                  !.corrected_voltages = commanded,
                  !.point_count = Len(currents)]]

ShapeInit ==
    /\ InitObjects
    /\ fx = [k |-> "shape", pc |-> "next_run", run_index |-> -1,
             segment_index |-> 0, command_index |-> 0,
             segment_start_idx |-> 0, run_voltages |-> <<>>,
             run_currents |-> <<>>, run_commanded |-> <<>>,
             run_entries |-> <<>>, snapshot |-> <<>>, base |-> 0]

ShapeFrame == UNCHANGED <<chOpen, tg, iv, waits, sweeps, uiq, ui, started>>

\* lines 302-321: a run begins with empty lists and a new entry
H_new_run ==
    /\ fx.k = "shape"
    /\ fx.pc = "next_run"
    /\ fx.run_index + 1 < ShapeRuns
    /\ fx' = [fx EXCEPT
                !.pc = "segment", !.run_index = @ + 1, !.segment_index = 0,
                !.command_index = 0, !.segment_start_idx = 0,
                !.run_voltages = <<>>, !.run_currents = <<>>,
                !.run_commanded = <<>>, !.base = 0,
                !.run_entries = Append(@,
                    [run_index |-> fx.run_index + 2, actual_voltages |-> <<>>,
                     currents |-> <<>>, corrected_voltages |-> <<>>,
                     point_count |-> 0])]
    /\ ShapeFrame

\* handle_point lines 326-346: a streamed point is appended to the three
\* lists and a snapshot of the entries is posted
H_handle_point ==
    /\ fx.k = "shape"
    /\ fx.pc = "segment"
    /\ fx.command_index - fx.segment_start_idx < ShapePoints
    /\ LET has == fx.command_index < Len(ShapePlan.path)
           level == IF has THEN ShapePlan.path[fx.command_index + 1] ELSE 0
           point == Meas(fx.segment_index, "live",
                         fx.command_index - fx.segment_start_idx + 1, level)
           voltages == Append(fx.run_voltages, point)
           currents == Append(fx.run_currents, point)
           commanded == Append(fx.run_commanded, level)
           entries == update_entry(fx.run_entries, voltages, currents,
                                   commanded)
       IN fx' = [fx EXCEPT
                   !.command_index = @ + 1, !.run_voltages = voltages,
                   !.run_currents = currents, !.run_commanded = commanded,
                   !.run_entries = entries, !.snapshot = entries]
    /\ ShapeFrame

\* lines 347-384: _perform_sweep returns the segment's pairs -- as many as
\* were streamed, one fewer or one more -- and they are put into the lists
H_segment_end ==
    /\ fx.k = "shape"
    /\ fx.pc = "segment"
    /\ LET segment_end_idx == fx.command_index
           streamed == segment_end_idx - fx.segment_start_idx
           command_slice == Slice(ShapePlan.path, fx.segment_start_idx,
                                  segment_end_idx)
       IN \E n \in {m \in {streamed - 1, streamed, streamed + 1} : m >= 0} :
            LET segment_pairs ==
                    [j \in 1..n |->
                       Meas(fx.segment_index, "buffer", j,
                            IF j <= Len(command_slice) THEN command_slice[j]
                            ELSE 0)]
                segment_corrected ==
                    IF n = 0 THEN <<>>
                    ELSE match_voltage_sequence(command_slice,
                                                ValuesOf(segment_pairs))
                commanded ==
                    IF segment_corrected # <<>>
                    THEN slice_assign(fx.run_commanded, fx.segment_start_idx,
                                      segment_end_idx, segment_corrected)
                    ELSE fx.run_commanded
                voltages == IF n > 0
                            THEN tail_assign(fx.run_voltages, n, segment_pairs)
                            ELSE fx.run_voltages
                currents == IF n > 0
                            THEN tail_assign(fx.run_currents, n, segment_pairs)
                            ELSE fx.run_currents
                entries == update_entry(fx.run_entries, voltages, currents,
                                        commanded)
                last == fx.segment_index + 1 = Len(ShapePlan.segments)
            IN fx' = [fx EXCEPT
                        !.run_voltages = voltages, !.run_currents = currents,
                        !.run_commanded = commanded, !.run_entries = entries,
                        !.snapshot = entries,
                        !.segment_start_idx = segment_end_idx,
                        !.base = Len(voltages),
                        !.segment_index = IF last THEN @ ELSE @ + 1,
                        !.pc = IF ~last THEN "segment"
                               ELSE IF fx.run_index + 1 < ShapeRuns
                               THEN "next_run" ELSE "complete"]
    /\ ShapeFrame

ShapeNext == H_new_run \/ H_handle_point \/ H_segment_end

ShapeSpec == ShapeInit /\ [][ShapeNext]_vars

(* ------------------------ 2602B: the polled sweep ---------------------- *)
\* test_2602b_gui_iv_multiple.py keeps its bookkeeping in the dictionary
\* sweep_state.  A run's voltage list is written by its length, and a level
\* by its place in the list, from 0.  The instrument is written by buffer,
\* the places of the levels it has measured (smua.nvbuffer1, in append
\* mode), and armed, the places it has still to measure in the segment it
\* was given.  faults counts the writes and queries that raised.
reset_state ==
    [configured |-> FALSE, running |-> FALSE, points_per_run |-> 0,
     current_index |-> 0, total_points |-> 0, total_runs |-> 0,
     inputs_snapshot |-> <<>>, pending_points |-> 0, segment_points |-> 0,
     segment_start_index |-> 0, monitor_job |-> FALSE]

\* update_progress_from_buffer lines 419-428, the query being answered
update_progress_from_buffer(s) ==
    [s EXCEPT !.current_index = Min({Len(s.buffer), s.total_points})]

\* a launch that programs all the pending points at once
launch_whole_remainder(s) ==
    LET offset == s.current_index % s.points_per_run
        segment_points == s.pending_points
    IN IF ~s.inst \/ s.pending_points <= 0 THEN [s EXCEPT !.ret = "false"]
       ELSE [s EXCEPT
               !.armed = [j \in 1..segment_points |->
                            (offset + j - 1) % s.points_per_run],
               !.segment_points = segment_points,
               !.segment_start_index = s.current_index,
               !.pending_points = @ - segment_points,
               !.running = TRUE, !.start_button = FALSE,
               !.stop_button = TRUE, !.monitor_job = TRUE, !.ret = "true"]

\* launch_next_segment lines 371-416, the instrument taking every write
launch_next_segment(s) ==
    LET offset == s.current_index % s.points_per_run
        points_this_cycle == IF offset # 0 THEN s.points_per_run - offset
                             ELSE s.points_per_run
        segment_points == Min({points_this_cycle, s.pending_points})
    IN IF ~s.inst \/ s.pending_points <= 0 \/ segment_points <= 0
       THEN [s EXCEPT !.ret = "false"]
       ELSE [s EXCEPT
               !.armed = [j \in 1..segment_points |-> offset + j - 1],
               !.segment_points = segment_points,
               !.segment_start_index = s.current_index,
               !.pending_points = @ - segment_points,
               !.running = TRUE, !.start_button = FALSE,
               !.stop_button = TRUE, !.monitor_job = TRUE, !.ret = "true"]

\* finalize_sweep_completion lines 476-520; what its query answers is
\* overwritten by line 485
finalize_sweep_completion(s) ==
    IF ~s.running THEN s
    ELSE [s EXCEPT
            !.running = FALSE, !.current_index = s.total_points,
            !.pending_points = 0, !.segment_points = 0,
            !.segment_start_index = s.total_points, !.monitor_job = FALSE,
            !.start_button = TRUE, !.stop_button = FALSE,
            !.last = "finalize_sweep_completion"]

\* lines 665-671 and 472-474: what the handlers do with an exception
start_failed(s) ==
    [s EXCEPT !.running = FALSE, !.start_button = TRUE, !.stop_button = FALSE]
monitor_again(s) == [s EXCEPT !.monitor_job = TRUE]

\* poll_sweep_progress lines 441-474.  query tells whether the buffer count
\* is answered, write whether the next segment's writes are taken
poll_sweep_progress(s0, query, write) ==
    LET s == [s0 EXCEPT !.monitor_job = FALSE, !.last = "poll_sweep_progress"]
        u == update_progress_from_buffer(s)
        completed == u.current_index
        total == u.total_points
        progressed == completed - u.segment_start_index
        d == [u EXCEPT !.segment_points = 0,
                       !.segment_start_index = completed]
        l == [launch_next_segment(d) EXCEPT !.last = "launch_next_segment"]
    IN IF ~s.inst \/ ~s.running THEN s
       ELSE IF ~query THEN monitor_again(s)
       ELSE IF u.segment_points > 0 /\ progressed >= u.segment_points
                /\ d.pending_points > 0
       THEN IF ~write THEN monitor_again(d)
            ELSE IF l.ret = "true" THEN l ELSE monitor_again(l)
       ELSE IF completed >= total
       THEN finalize_sweep_completion(IF u.segment_points > 0
                                         /\ progressed >= u.segment_points
                                      THEN d ELSE u)
       ELSE monitor_again(IF u.segment_points > 0
                             /\ progressed >= u.segment_points
                          THEN d ELSE u)

\* configure_trigger_model lines 523-585, every write taken: the instrument
\* is aborted and its buffer cleared, and the bookkeeping starts again
configure_trigger_model(s, points, runs) ==
    [s EXCEPT
       !.buffer = <<>>, !.armed = <<>>,
       !.configured = TRUE, !.running = FALSE, !.points_per_run = points,
       !.current_index = 0, !.total_points = points * runs,
       !.total_runs = runs, !.inputs_snapshot = <<points, runs>>,
       !.pending_points = 0, !.segment_points = 0,
       !.segment_start_index = 0, !.monitor_job = FALSE,
       !.start_button = TRUE, !.stop_button = FALSE]

\* start_sweep lines 619-671 with the entries giving a run of `points`
\* levels and `runs` runs.  config is "ok", "refused" (the first write of
\* configure_trigger_model raises) or "broken" (a later one does, after the
\* buffer was cleared)
start_sweep(s0, points, runs, config, query, write) ==
    LET s == [s0 EXCEPT !.last = "start_sweep"]
        needs_new_configuration ==
            \/ ~s.configured
            \/ s.inputs_snapshot # <<points, runs>>
            \/ s.current_index >= s.total_points
        c == IF needs_new_configuration
             THEN configure_trigger_model(s, points, runs) ELSE s
        u == IF query THEN update_progress_from_buffer(c) ELSE c
        remaining_points == u.total_points - u.current_index
        p == [u EXCEPT !.pending_points = remaining_points,
                       !.segment_points = 0,
                       !.segment_start_index = u.current_index]
        l == launch_next_segment(p)
    IN IF ~s.inst THEN s
       ELSE IF needs_new_configuration /\ config = "refused"
       THEN start_failed(s)
       ELSE IF needs_new_configuration /\ config = "broken"
       THEN start_failed([s EXCEPT !.buffer = <<>>, !.armed = <<>>])
       ELSE IF c.running THEN c
       ELSE IF remaining_points <= 0 THEN u
       ELSE IF ~write THEN start_failed(p)
       ELSE IF l.ret = "true" THEN l ELSE start_failed(l)

\* stop_sweep lines 675-705.  abort tells whether smua.abort() is taken,
\* query whether the buffer count is answered
stop_sweep(s0, abort, query) ==
    LET s == [s0 EXCEPT !.last = "stop_sweep"]
        a == IF abort THEN [s EXCEPT !.armed = <<>>] ELSE s
        u == IF query THEN update_progress_from_buffer(a) ELSE a
        completed == u.current_index
        segment_completed == Max({completed - u.segment_start_index, 0})
        remaining_in_segment == Max({u.segment_points - segment_completed, 0})
    IN IF ~s.inst \/ ~s.configured THEN s
       ELSE IF ~s.running THEN s
       ELSE [u EXCEPT
               !.pending_points = @ + remaining_in_segment,
               !.segment_points = 0, !.segment_start_index = completed,
               !.running = FALSE, !.monitor_job = FALSE,
               !.start_button = TRUE, !.stop_button = FALSE]

BookInit ==
    /\ InitObjects
    /\ fx = reset_state @@
            [k |-> "polled", inst |-> FALSE, buffer |-> <<>>, armed |-> <<>>,
             start_button |-> TRUE, stop_button |-> FALSE, faults |-> 0,
             last |-> "none", ret |-> "none"]

BookFrame == UNCHANGED <<chOpen, tg, iv, waits, sweeps, uiq, ui, started>>

\* the answers the instrument may give while fewer than MaxFaults faults
\* have happened
Answers == IF fx.faults < MaxFaults THEN BOOLEAN ELSE {TRUE}
Faulty(flags) == IF FALSE \in flags THEN 1 ELSE 0

\* connect lines 588-601
K_connect ==
    /\ fx.k = "polled"
    /\ ~fx.inst
    /\ fx' = [fx EXCEPT !.inst = TRUE, !.last = "connect"]
    /\ BookFrame

\* disconnect lines 604-616 with reset_sweep_state 330-368
K_disconnect ==
    /\ fx.k = "polled"
    /\ fx.inst
    /\ fx' = reset_state @@
             [fx EXCEPT !.inst = FALSE, !.start_button = TRUE,
                        !.stop_button = FALSE, !.last = "disconnect"]
    /\ BookFrame

\* the Start Sweep button
K_start_sweep ==
    /\ fx.k = "polled"
    /\ fx.start_button
    /\ \E points \in 1..BookPoints, runs \in 1..BookRuns,
          query \in Answers, write \in Answers,
          config \in IF fx.faults < MaxFaults
                     THEN {"ok", "refused", "broken"} ELSE {"ok"} :
         fx' = [start_sweep(fx, points, runs, config, query, write) EXCEPT
                  !.faults = Min({@ + Faulty({config = "ok", query, write}),
                                  MaxFaults})]
    /\ BookFrame

\* the Stop Sweep button
K_stop_sweep ==
    /\ fx.k = "polled"
    /\ fx.stop_button
    /\ \E abort \in Answers, query \in Answers :
         fx' = [stop_sweep(fx, abort, query) EXCEPT
                  !.faults = Min({@ + Faulty({abort, query}), MaxFaults})]
    /\ BookFrame

\* the callback that root.after scheduled
K_poll_sweep_progress ==
    /\ fx.k = "polled"
    /\ fx.monitor_job
    /\ \E query \in Answers, write \in Answers :
         fx' = [poll_sweep_progress(fx, query, write) EXCEPT
                  !.faults = Min({@ + Faulty({query, write}), MaxFaults})]
    /\ BookFrame

\* the instrument measures the next level of its segment
K_measure ==
    /\ fx.k = "polled"
    /\ fx.armed # <<>>
    /\ Len(fx.buffer) < BufferCap
    /\ fx' = [fx EXCEPT !.buffer = Append(@, Head(fx.armed)),
                        !.armed = Tail(@)]
    /\ BookFrame

BookNext ==
    \/ K_connect
    \/ K_disconnect
    \/ K_start_sweep
    \/ K_stop_sweep
    \/ K_poll_sweep_progress
    \/ K_measure

BookSpec == BookInit /\ [][BookNext]_vars

(* ------------------------------ properties ----------------------------- *)
\* a sweep worker is blocked in inst.read() on session h
SweepReading(id, h) == sweeps[id].pc = "reading" /\ sweeps[id].h = h
\* a wait worker is blocked in inst.query() on session h
WaitBlocked(k, h) == waits[k].pc = "blocked" /\ waits[k].h = h

\* C1 (as stated): whenever the Tk loop is between callbacks, the listener
\* is locked exactly when the sweep side holds the shared session.
C1_LockedIffShared ==
    UIIdle => (tg.instrument_locked <=> iv.using_shared_session)

\* C1 (amended): whenever the Tk loop is between callbacks, the sweep side
\* holds the shared session only while the listener is locked, so the two
\* sides never both own the channel; the listener may be locked without a
\* shared session, while a sweep runs on the sweep tab's own session.
C1_SharedImpliesLocked ==
    UIIdle /\ iv.using_shared_session => tg.instrument_locked

C1_Witness ==
    /\ UIIdle
    /\ iv.using_shared_session
    /\ tg.instrument_locked
    /\ iv.inst = tg.inst
    /\ sweeps[Current].pc = "reading"

\* C2: no two worker threads are on one session at the same time: at most
\* one sweep worker is alive, and no wait worker is blocked in its query on
\* the session a sweep worker is reading from.
C2_OneWorkerOnChannel ==
    /\ Cardinality(AliveSweeps) <= 1
    /\ \A h \in Handles :
         /\ ~(SweepReading(Current, h) /\ SweepReading(Orphan, h))
         /\ \A k \in DOMAIN waits, id \in DOMAIN sweeps :
              ~(WaitBlocked(k, h) /\ SweepReading(id, h))

\* C3: while the listener is locked, a press of "Wait for Trigger", of
\* "Setup" or of Disconnect changes nothing: no listener field, no thread,
\* no session and no queued callback.
C3_RejectedWhileLocked ==
    [][(tg.instrument_locked
        /\ (TG_start_wait \/ TG_setup_trigger \/ TG_disconnect))
       => UNCHANGED vars]_vars

C3_Witness ==
    /\ UIIdle
    /\ tg.instrument_locked
    /\ is_sweep_running
    /\ BtnWait(tg)
    /\ IsReady(tg)
    /\ ~tg.waiting
    /\ started.waits < MaxWaits
    /\ iv.using_shared_session

C5_LockBeforeHandle ==
    iv.using_shared_session => tg.instrument_locked

\* C6: whenever the sweep side holds the shared session and the listener is
\* locked, the session is eventually released and the listener unlocked.
C6_OwnershipReturns ==
    (iv.using_shared_session /\ tg.instrument_locked)
        ~> (~iv.using_shared_session /\ ~tg.instrument_locked)

\* C7: between callbacks, an unlocked listener that shows itself connected
\* holds a session that is still usable: a session that was lost during the
\* sweep does not come back as available.
C7_ReturnedHandleUsable ==
    (UIIdle /\ ~tg.instrument_locked /\ tg.inst # None /\ tg.btn_connected)
        => chOpen[tg.inst]

\* C8: the status saved by the first lock is the status at that moment, a
\* repeated lock or unlock changes nothing of the listener, no step taken
\* while locked overwrites the saved status, and the unlock puts the saved
\* status back and clears the saved value.
C8_LockRoundTrip ==
    [][/\ (~tg.instrument_locked /\ tg'.instrument_locked)
          => (tg'.status_before_lock = tg.status /\ tg'.status = BusyStatus)
       /\ (tg.instrument_locked /\ tg'.instrument_locked)
          => tg'.status_before_lock = tg.status_before_lock
       /\ (tg.instrument_locked /\ UI_check142) => tg' = tg
       /\ (~tg.instrument_locked /\ (UI_on_sweep_complete \/ UI_on_sweep_failed))
          => tg' = tg
       /\ (tg.instrument_locked /\ ~tg'.instrument_locked /\ RootAlive')
          => /\ tg'.status = tg.status_before_lock
             /\ tg'.status_before_lock = NoStatus]_vars

C8_Witness ==
    /\ ui.pc = "check234"
    /\ is_sweep_running
    /\ tg.instrument_locked
    /\ tg.status = BusyStatus
    /\ tg.status_before_lock = "Trigger received."

\* C9: between callbacks, while the listener is locked and a sweep runs on
\* the shared session, no control of the listener would write to or read
\* from that session if it were used.
C9_NoListenerIOWhileLocked ==
    (UIIdle /\ tg.instrument_locked /\ iv.using_shared_session
       /\ is_sweep_running)
        => \A op \in ListenerOps : iv.inst \notin IOof(op, tg)

\* C10: with stop_event set, a sweep thread in the read loop either takes
\* one more line and stays in the loop, or ends by posting the failure
\* "Sweep cancelled."; it neither leaves the loop for the readback nor ends
\* with another failure.
C10_CancelledOutcome ==
    [][\A id \in DOMAIN sweeps :
         (iv.stop_event /\ (SW_read(id) \/ SW_reading(id)))
            => \/ sweeps'[id].pc = "read"
               \/ /\ sweeps'[id].pc = "dead"
                  /\ uiq' = Append(uiq, Ev("failed", "cancelled"))]_vars

\* C11: when stop_event is set at the top of a read-loop iteration, the
\* iteration does not enter inst.read(); when it is set before a segment,
\* the segment command is not written; in both cases the thread ends with
\* the failure "Sweep cancelled.".
C11_Checkpoints ==
    [][\A id \in DOMAIN sweeps :
         (iv.stop_event /\ (SW_read(id) \/ SW_segment(id)))
            => /\ sweeps'[id].pc \notin {"reading", "entry"}
               /\ sweeps'[id].pc = "dead"
               /\ uiq' = Append(uiq, Ev("failed", "cancelled"))]_vars

C11_Witness ==
    /\ iv.stop_event
    /\ RootAlive
    /\ QueueRoom
    /\ sweeps[Current].pc = "segment"
    /\ sweeps[Orphan].pc = "read"

\* C12: a pending read that ends while stop_event is clear and the session
\* stays open (a line arrived, or the read timed out) leaves the sweep
\* thread running: a timeout does not abort the segment.
C12_TimeoutKeepsWaiting ==
    [][\A id \in DOMAIN sweeps :
         (/\ ~iv.stop_event
          /\ SW_reading(id)
          /\ chOpen[sweeps[id].h]
          /\ chOpen'[sweeps[id].h])
            => sweeps'[id].pc # "dead"]_vars

\* C13 (as stated): a step of a sweep thread leads to the buffer readback
\* only when it is a pending read that returned (the marker line).
C13_ReadbackOnlyAfterRead ==
    [][\A id \in DOMAIN sweeps :
         (SweepStep(id) /\ sweeps'[id].pc = "readback")
            => (SW_reading(id) /\ chOpen[sweeps[id].h])]_vars

\* C13 (amended): a step of a sweep thread leads to the buffer readback
\* only when it is a pending read that returned on an open session, or the
\* entry of the loop with self.inst None; a pending read ends in another
\* iteration, in the readback, or in the failure callback, and a read on a
\* session that is closed or lost always ends in the failure callback.
C13_ReturnOnlyAfterMarker ==
    [][\A id \in DOMAIN sweeps :
         /\ (SweepStep(id) /\ sweeps'[id].pc = "readback")
               => \/ SW_reading(id) /\ chOpen[sweeps[id].h]
                  \/ SW_entry(id) /\ iv.inst = None
         /\ SW_reading(id)
               => \/ sweeps'[id].pc \in {"read", "readback"}
                  \/ /\ sweeps'[id].pc = "dead"
                     /\ uiq' = Append(uiq, Ev("failed", "error"))
         /\ (SW_reading(id) /\ ~chOpen'[sweeps[id].h])
               => sweeps'[id].pc = "dead"]_vars

C13_Witness ==
    /\ sweeps[Current].pc = "readback"
    /\ Usable(iv.inst)
    /\ ~iv.stop_event
    /\ sweeps[Orphan].pc = "dead"

\* number of the first line of s that satisfies the test, 0 when none does
FirstVerbatim(s) ==
    IF \E i \in DOMAIN s : s[i] = Marker
    THEN CHOOSE i \in DOMAIN s :
           s[i] = Marker /\ \A j \in 1..(i - 1) : s[j] # Marker
    ELSE 0
FirstStripped(s) ==
    IF \E i \in DOMAIN s : strip(s[i]) = Marker
    THEN CHOOSE i \in DOMAIN s :
           strip(s[i]) = Marker /\ \A j \in 1..(i - 1) : strip(s[j]) # Marker
    ELSE 0
NonEmpty(l) == l # <<>>
RECURSIVE StrippedNonEmpty(_)
StrippedNonEmpty(s) ==
    IF s = <<>> THEN <<>>
    ELSE IF strip(Head(s)) = <<>> THEN StrippedNonEmpty(Tail(s))
    ELSE <<strip(Head(s))>> \o StrippedNonEmpty(Tail(s))

\* C14 (as stated): a call that returned consumed the stream exactly up to
\* the first line equal to the marker, passed to on_line and returned the
\* non-empty lines before it as received, in order, and not the marker.
C14_StopsAtVerbatimMarker ==
    fx.k = "returned" =>
        /\ fx.pos = FirstVerbatim(fx.stream)
        /\ fx.lines = SelectSeq(SubSeq(fx.stream, 1, fx.pos - 1), NonEmpty)
        /\ fx.parsed = fx.lines

\* C14 (amended): a call that returned consumed the stream exactly up to
\* the first line that equals the marker once stripped of surrounding
\* whitespace; it passed to on_line and returned, stripped and in order,
\* the lines before it that are not empty once stripped; the marker is
\* neither passed to on_line nor returned.
C14_StopsAtStrippedMarker ==
    fx.k = "returned" =>
        /\ fx.pos > 0
        /\ fx.pos = FirstStripped(fx.stream)
        /\ fx.lines = StrippedNonEmpty(SubSeq(fx.stream, 1, fx.pos - 1))
        /\ fx.parsed = fx.lines
        /\ \A i \in DOMAIN fx.lines : fx.lines[i] # Marker

C14_Witness ==
    /\ fx.k = "returned"
    /\ fx.pos = 2
    /\ Len(fx.stream) = 3
    /\ fx.lines = <<<<"d">>>>
    /\ fx.stream[3] = Marker

\* the worker posts the failure callback
PostsFailure == \E why \in {"error", "cancelled"} :
                  uiq' = Append(uiq, Ev("failed", why))
\* the worker is inside a segment: between the test before its command and
\* the end of its buffer readback
MidSegment(id) ==
    sweeps[id].pc \in {"segment", "entry", "read", "reading", "readback"}

\* C15: when the worker meets an I/O error or the stop flag inside a segment
\* it posts the failure and ends; an ended worker writes no segment command,
\* for no remaining segment and no following run.
C15_NoCommandAfterFailure ==
    [][/\ (MidSegment(Current) /\ SweepStep(Current) /\ PostsFailure)
            => sweeps'[Current].pc = "dead"
       /\ sweeps[Current].pc = "dead"
            => (~SW_segment(Current) /\ sweeps'[Current].pc = "dead")]_vars

C15_Witness ==
    /\ sweeps[Current].pc = "dead"
    /\ uiq = <<Ev("failed", "cancelled")>>
    /\ iv.stop_event
    /\ Usable(iv.inst)
    /\ iv.script_loaded

C16_PartialResultsHeld ==
    (fx.k = "data" /\ fx.failed_done)
        => Points(fx.heap[fx.run_results]) = Points(fx.heap[LiveRef])

\* C20: every progress snapshot waiting in the Tk queue, up to the moment
\* _update_live_plot takes it, has the contents it had when it was posted,
\* whatever the worker has done to its live records since.
C20_SnapshotUnchanged ==
    fx.k = "data" =>
        \A i \in DOMAIN fx.queue :
            fx.queue[i].kind = "plot"
                => fx.heap[fx.queue[i].ref] = fx.queue[i].sent

C20_Witness ==
    /\ fx.k = "data"
    /\ Len(fx.queue) = MaxQueue
    /\ fx.queue[1].kind = "plot"
    /\ fx.queue[2].kind = "plot"
    /\ fx.queue[1].sent # fx.heap[LiveRef]
    /\ fx.queue[1].sent # fx.queue[2].sent

\* the command that switches the source output off
OutputOff == "smu.source.output = smu.OFF"
\* what the failure path writes to the instrument, from the except clause of
\* _sweep_worker through _on_sweep_failed to release_shared_instrument
FailurePathWrites == {}

\* C17: when the failure notification of a sweep on the shared session is
\* processed and the session goes back to the listener, the failure path
\* has written the output-off command to the instrument.
C17_OutputOffBeforeRelease ==
    [][(UI_on_sweep_failed /\ iv.using_shared_session
            /\ ~iv'.using_shared_session)
          => OutputOff \in FailurePathWrites]_vars

\* the notifications that end a sweep
Terminal == {Ev("complete", "none"), Ev("failed", "error"),
             Ev("failed", "cancelled")}

\* C18: the step in which a running sweep worker ends appends one terminal
\* notification, completion or failure, to the Tk queue.
C18_NoSilentExit ==
    [][\A id \in DOMAIN sweeps :
         (SweepStep(id) /\ sweeps[id].pc # "dead" /\ sweeps'[id].pc = "dead")
            => \E e \in Terminal : uiq' = Append(uiq, e)]_vars

\* the planner has returned for the parameters fx.in
Planned == fx.k = "planned"
PlanEps == epsilon(Abs(fx.in.step), fx.in.grid)
Sign(x) == IF x > 0 THEN 1 ELSE IF x < 0 THEN -1 ELSE 0
\* x is reached from 0 by whole steps
ReachableFromZero(x) == \E n \in 0..Abs(x) : n * Abs(fx.in.step) = Abs(x)
\* the ladder of segment i of the plan
Ladder(i) ==
    generate_segment_levels(fx.segments[i][1], fx.segments[i][2],
                            fx.segments[i][3], PlanEps)

\* C21: the path of a plan whose start and stop are reached from 0 by whole
\* steps begins and ends within epsilon of 0, and no level of a segment
\* lies beyond the segment's stop by more than one step.
C21_RoundTripToZero ==
    Planned =>
        /\ (ReachableFromZero(fx.in.start) /\ ReachableFromZero(fx.in.stop))
              => /\ isclose(fx.path[1], 0, PlanEps)
                 /\ isclose(fx.path[Len(fx.path)], 0, PlanEps)
        /\ \A i \in DOMAIN fx.segments :
             \A j \in DOMAIN Ladder(i) :
                LET seg == fx.segments[i]
                IN (Ladder(i)[j] - seg[2]) * Sign(seg[3]) <= Abs(fx.in.step)

\* C22: the ladder of every segment of a plan never steps against the sign
\* of the segment's step.
C22_LadderMonotonic ==
    Planned =>
        \A i \in DOMAIN fx.segments :
            \A j \in 1..(Len(Ladder(i)) - 1) :
                (Ladder(i)[j + 1] - Ladder(i)[j]) * Sign(fx.segments[i][3]) >= 0

\* C23: in every segment of a plan the step has the sign of stop - start,
\* and start and stop do not lie on opposite sides of zero.
C23_SegmentInvariant ==
    Planned =>
        \A i \in DOMAIN fx.segments :
            LET seg == fx.segments[i]
            IN /\ Sign(seg[3]) = Sign(seg[2] - seg[1])
               /\ seg[1] * seg[2] >= 0

\* the plan is the one segment from start to stop
DirectSegment ==
    /\ Len(fx.segments) = 1
    /\ fx.segments[1][1] = fx.in.start
    /\ fx.segments[1][2] = fx.in.stop

\* C24 (as stated): a plan for start and stop on the same side of zero, or
\* both zero, is the single direct segment from start to stop.
C24_DirectWhenOneSided ==
    (Planned /\ (fx.in.start * fx.in.stop > 0
                   \/ (fx.in.start = 0 /\ fx.in.stop = 0)))
        => DirectSegment

\* C24 (amended): the plan is the single direct segment (start, stop, step)
\* exactly when start and stop both lie within epsilon of zero, start ==
\* stop == 0 included; for start and stop on the same side of zero beyond
\* epsilon the plan is the pair 0 -> target, target -> 0, with target the
\* farther of the two from zero.
C24_DirectOnlyNearZero ==
    Planned =>
        LET near == Abs(fx.in.start) <= PlanEps /\ Abs(fx.in.stop) <= PlanEps
            far == IF Abs(fx.in.start) >= Abs(fx.in.stop)
                   THEN fx.in.start ELSE fx.in.stop
        IN /\ near <=> DirectSegment
           /\ near => fx.segments = <<<<fx.in.start, fx.in.stop, fx.in.step>>>>
           /\ (fx.in.start * fx.in.stop > 0 /\ Abs(far) > PlanEps)
                 => fx.segments =
                      << <<0, far, Sign(far) * Abs(fx.in.step)>>,
                         <<far, 0, -Sign(far) * Abs(fx.in.step)>> >>

C24_Witness ==
    /\ Planned
    /\ fx.in.start = 0 /\ fx.in.stop = 0
    /\ fx.segments = <<<<0, 0, fx.in.step>>>>
    /\ fx.path = <<0>>

\* a segment between zero and a positive level, or a negative level
PositiveSeg(seg) == Max({seg[1], seg[2]}) > 0 /\ Min({seg[1], seg[2]}) = 0
NegativeSeg(seg) == Min({seg[1], seg[2]}) < 0 /\ Max({seg[1], seg[2]}) = 0

\* C25: the plan for -4.0 V, 4.0 V, 0.1 V is the four segments 0 -> 4,
\* 4 -> 0, 0 -> -4, -4 -> 0 in that order, each with a ladder of 41 levels
\* and 164 levels in all; in every plan the segments of the positive
\* target come before the segments of the negative target, and on the
\* ordinary grid start and stop on opposite sides of zero give both pairs.
C25_ScenarioPlan ==
    Planned =>
        /\ fx.in = ScenarioInput
              => /\ fx.segments = << <<0, 40, 1>>, <<40, 0, -1>>,
                                     <<0, -40, -1>>, <<-40, 0, 1>> >>
                 /\ \A i \in 1..4 : Len(Ladder(i)) = 41
                 /\ Len(fx.path) = 164
        /\ \A i, j \in DOMAIN fx.segments :
              (PositiveSeg(fx.segments[i]) /\ NegativeSeg(fx.segments[j]))
                 => i < j
        /\ (fx.in.grid = "tenth" /\ fx.in.start * fx.in.stop < 0)
              => /\ Len(fx.segments) = 4
                 /\ PositiveSeg(fx.segments[1]) /\ PositiveSeg(fx.segments[2])
                 /\ NegativeSeg(fx.segments[3]) /\ NegativeSeg(fx.segments[4])

C25_Witness ==
    /\ Planned
    /\ fx.in = ScenarioInput
    /\ Len(fx.segments) = 4
    /\ fx.path[41] = 40 /\ fx.path[42] = 40 /\ fx.path[123] = -40

\* C26: every step that the planner rejects is rejected inside start_sweep:
\* no worker thread is ever started with such a step, so none reaches
\* _build_segments with it.
C26_RejectedBeforeSpawn ==
    \A id \in DOMAIN sweeps : sweeps[id].pk # "tiny_step"

\* the reconciler has returned fx.out
Matched == fx.k = "matched"
MinLength == Min({Len(fx.expected), Len(fx.actual)})
\* the indices below the common length where commanded and measured differ
\* by more than the tolerance
Diverging ==
    {i \in 1..MinLength :
       Abs(fx.expected[i] - fx.actual[i])
          > match_tolerance(base_step_of(fx.expected, MinLength))}

\* C27: reconciling a commanded sequence with itself returns it unchanged.
C27_Idempotent ==
    (Matched /\ fx.actual = fx.expected) => fx.out = fx.expected

C27_Witness ==
    /\ Matched
    /\ fx.actual = fx.expected
    /\ fx.out = <<0, 15, 1000>>

\* C28: with k the first diverging index, the output is the measured value
\* below k and the commanded value from k up to the common length, whatever
\* the later points do; commanded 0,1,2,3,4 V with measured 0,1,2,2,2 V
\* gives 0,1,2,3,4 V.
C28_Sticky ==
    Matched =>
        /\ \A i \in 1..MinLength :
              fx.out[i] = IF \E k \in Diverging : k <= i
                          THEN fx.expected[i] ELSE fx.actual[i]
        /\ (fx.expected = ExampleCommanded /\ fx.actual = ExampleMeasured)
              => fx.out = ExampleCommanded

C28_Witness ==
    /\ Matched
    /\ fx.expected = ExampleCommanded /\ fx.actual = ExampleMeasured
    /\ Diverging = {4, 5}
    /\ fx.out = ExampleCommanded

\* C29: the output is as long as the measured sequence, and from the
\* common length on it is the measured sequence.
C29_TailPassesThrough ==
    Matched =>
        /\ Len(fx.out) = Len(fx.actual)
        /\ \A i \in (MinLength + 1)..Len(fx.actual) : fx.out[i] = fx.actual[i]

C29_Witness ==
    /\ Matched
    /\ Len(fx.expected) = 1 /\ Len(fx.actual) = 3
    /\ Diverging = {1}
    /\ fx.out[1] # fx.actual[1]
    /\ fx.out[3] = 15

C31_TimeoutRestored ==
    fx.k = "drain" =>
        /\ fx.pc \in {"returned", "raised"} => fx.timeout = fx.entry
        /\ fx.pc = "drain" =>
              fx.timeout = drain_timeout(fx.helper, fx.entry)

C31_Witness ==
    /\ fx.k = "drain"
    /\ fx.pc = "raised" /\ fx.exit = "drain_error"
    /\ fx.reads > 0
    /\ fx.calls = DrainCalls
    /\ drain_timeout(fx.helper, fx.entry) < fx.entry

Returned == fx.k = "fetch" /\ fx.pc = "returned"
Readback == zip_pairs(fx.voltages, fx.currents)
ReadbackShortOrEmpty ==
    \/ Len(fx.voltages) < fx.point_count \/ Len(fx.currents) < fx.point_count
    \/ Readback = <<>>

\* C32: a segment whose buffer readback is short or empty returns the pairs
\* parsed from its printed lines (when there are any); otherwise, when the
\* readback has another number of points than were parsed, it returns the
\* pairs of the readback.
C32_ReadbackPreference ==
    Returned =>
        /\ (ReadbackShortOrEmpty /\ fx.live # <<>>) => fx.result = fx.live
        /\ (~ReadbackShortOrEmpty /\ Len(Readback) # Len(fx.live)) =>
              fx.result = Readback

LadderReturned == fx.k = "ladder" /\ fx.pc = "returned"

\* C33: the ladder of a segment is returned in the end, and a returned
\* ladder begins with the segment's start, ends within epsilon of the
\* segment's stop and has no level past the stop.
C33_LadderLandsOnStop ==
    /\ <>LadderReturned
    /\ [](LadderReturned =>
            /\ fx.levels[1] = fx.start
            /\ isclose(fx.levels[Len(fx.levels)], fx.stop, fx.eps)
            /\ \A i \in 1..Len(fx.levels) :
                  Abs(fx.levels[i] - fx.start) <=
                      Abs(fx.stop - fx.start) + fx.eps)

\* the loop ends for every segment, and gives the ladder that the planner
\* puts into the path
LadderTerminates ==
    /\ <>LadderReturned
    /\ [](LadderReturned =>
            fx.levels = generate_segment_levels(fx.start, fx.stop,
                                                fx.seg_step, fx.eps))

\* C34: the marker line that ended the loop of the current segment execution
\* was printed for this execution, and so was every measurement recorded
\* for it.
C34_MarkerAttribution ==
    fx.k = "attr" =>
        /\ fx.ended_by \in {0, fx.exec}
        /\ \A i \in 1..Len(fx.data) : fx.data[i] = fx.exec

\* within one sweep that has read everything it asked for, the marker that
\* ends a loop is the execution's own
MarkerOwnInFirstSweep ==
    (fx.k = "attr" /\ fx.sweep = 1) => C34_MarkerAttribution

\* _handle_trigger lines 234-236 find no sweep running: when the callback
\* returns the shared session is released and the listener unlocked
RollbackAtReturn ==
    (UI_check234 /\ ~is_sweep_running)
        => (~iv'.using_shared_session /\ ~tg'.instrument_locked)

\* C35: a trigger callback that finds no sweep running after start_sweep
\* releases the shared session and unlocks the listener before it returns,
\* and whatever the worker thread does around the two is_sweep_running tests,
\* a listener locked by the handoff is unlocked in the end.
C35_HandoffRollback ==
    /\ [][RollbackAtReturn]_vars
    /\ (ui.pc = "check234") ~> ~tg.instrument_locked

\* the first half on its own
RollbackHolds == [][RollbackAtReturn]_vars

\* the operations of the sweep side that run on the Tk thread
SweepSideOp ==
    \/ UI_handle_trigger \/ UI_ht_lock \/ UI_ss_join \/ UI_check142
    \/ UI_check234 \/ IV_run \/ IV_disconnect \/ UI_on_sweep_complete
    \/ UI_on_sweep_failed \/ UI_root_close \/ UI_close_join

\* C36: an operation of the sweep side that starts or ends with the session
\* shared closes no session and leaves the listener's inst and rm as they
\* are; when it ends the sharing, the sweep side's own inst and rm are
\* dropped.
C36_SharedSessionNotClosed ==
    [][(SweepSideOp /\ (iv.using_shared_session \/ iv'.using_shared_session))
         => /\ \A h \in Handles : chOpen[h] => chOpen'[h]
            /\ tg'.inst = tg.inst /\ tg'.rm = tg.rm
            /\ ~iv'.using_shared_session
                  => (iv'.inst = None /\ iv'.rm = FALSE)]_vars

C36_Witness ==
    /\ ui.pc = "close_trigger"
    /\ ~iv.using_shared_session /\ iv.inst = None
    /\ tg.inst # None /\ chOpen[tg.inst]
    /\ sweeps[Current].pc # "dead" /\ sweeps[Current].h = tg.inst

\* wait workers blocked in inst.query on a session that is open
BlockedWaits ==
    {k \in DOMAIN waits : waits[k].pc = "blocked" /\ chOpen[waits[k].h]}
FinishPending == \E j \in DOMAIN uiq : uiq[j].kind = "finish"

\* C37: at most one wait worker is blocked on an open session; the
\* listener's waiting flag is set while one is, and is set only while a
\* worker or its completion callback is outstanding; the completion callback
\* leaves waiting and cancel_requested clear.
C37_WaitState ==
    /\ [](/\ Cardinality(BlockedWaits) <= 1
          /\ BlockedWaits # {} => tg.waiting
          /\ tg.waiting => (waits # <<>> \/ FinishPending))
    /\ [][UI_finish => (~tg'.waiting /\ ~tg'.cancel_requested)]_vars

\* the last part on its own
FinishResets == [][UI_finish => (~tg'.waiting /\ ~tg'.cancel_requested)]_vars

WellShaped(entry) ==
    /\ Len(entry.actual_voltages) = entry.point_count
    /\ Len(entry.currents) = entry.point_count
    /\ Len(entry.corrected_voltages) = entry.point_count

\* C38: every run record of the entries and of the last snapshot has as
\* many measured voltages, currents and corrected voltages as its point
\* count, and a step within a segment leaves the values of the run's
\* earlier segments where they are.
C38_RunRecordShape ==
    /\ [](fx.k = "shape" =>
            /\ \A i \in DOMAIN fx.run_entries : WellShaped(fx.run_entries[i])
            /\ \A i \in DOMAIN fx.snapshot : WellShaped(fx.snapshot[i]))
    /\ [][(fx.k = "shape" /\ fx'.run_index = fx.run_index) =>
            /\ Len(fx'.run_voltages) >= fx.base
            /\ SubSeq(fx'.run_voltages, 1, fx.base)
                 = SubSeq(fx.run_voltages, 1, fx.base)
            /\ SubSeq(fx'.run_currents, 1, fx.base)
                 = SubSeq(fx.run_currents, 1, fx.base)]_vars

\* C39: the plan depends only on max(start, stop, 0), min(start, stop, 0)
\* and the magnitude of the step.  Whenever start or stop lies more than
\* epsilon from zero, every call on the same grid with the same three
\* numbers returns the same segments and the same path; the calls with
\* start and stop exchanged and with the step negated are two of them.
SameTargets(a, b) ==
    /\ a.grid = b.grid
    /\ Max({a.start, a.stop, 0}) = Max({b.start, b.stop, 0})
    /\ Min({a.start, a.stop, 0}) = Min({b.start, b.stop, 0})
    /\ Abs(a.step) = Abs(b.step)
BeyondEpsilon(in) ==
    Max({Abs(in.start), Abs(in.stop)}) > epsilon(Abs(in.step), in.grid)
SamePlan(plan) ==
    /\ plan.k = fx.k
    /\ plan.k = "planned" => /\ plan.segments = fx.segments
                              /\ plan.path = fx.path
C39_PlannerSymmetry ==
    (fx.k \in {"planned", "rejected"} /\ BeyondEpsilon(fx.in)) =>
        /\ SamePlan(build_segments(fx.in.stop, fx.in.start, fx.in.step,
                                   fx.in.grid))
        /\ SamePlan(build_segments(fx.in.start, fx.in.stop, -fx.in.step,
                                   fx.in.grid))
        /\ \A other \in PlanInputs :
              SameTargets(other, fx.in) =>
                  SamePlan(build_segments(other.start, other.stop, other.step,
                                          other.grid))
\* a sweep from a negative start to a positive stop with a negative step is
\* planned in four segments, the positive side first
C39_Witness ==
    /\ Planned
    /\ BeyondEpsilon(fx.in)
    /\ fx.in.start < 0 /\ fx.in.stop > 0 /\ fx.in.step < 0
    /\ fx.in.stop # -fx.in.start
    /\ Len(fx.segments) = 4
    /\ fx.segments[1][2] = fx.in.stop
    /\ fx.segments = build_segments(fx.in.stop, fx.in.start, -fx.in.step,
                                    fx.in.grid).segments
\* without the condition: start and stop within epsilon of zero
PlannerSymmetryEverywhere ==
    fx.k = "planned" =>
        SamePlan(build_segments(fx.in.start, fx.in.stop, -fx.in.step,
                                fx.in.grid))


\* C40: 2602B polled sweep bookkeeping.  After every handler of a configured
\* sweep a launched segment ends within the run it starts in.  As long as no
\* more than one write or query has raised, segment_start_index +
\* segment_points + pending_points is total_points, every reading in the
\* buffer was taken at the level of its place (none lost, none repeated,
\* across pauses too) and the sweep ends with total_points readings.  As
\* long as none has raised, the buffer and the rest of the segment under way
\* add up to segment_start_index + segment_points.
BookSum ==
    fx.segment_start_index + fx.segment_points + fx.pending_points
SegmentInRun ==
    fx.segment_points > 0 =>
        (fx.segment_start_index % fx.points_per_run) + fx.segment_points
            <= fx.points_per_run
ReadingsInPlace ==
    /\ \A j \in 1..Len(fx.buffer) :
         fx.buffer[j] = (j - 1) % fx.points_per_run
    /\ fx.last = "finalize_sweep_completion" =>
         Len(fx.buffer) = fx.total_points
====
